---------------------------- MODULE Spec2Model ----------------------------
(***************************************************************************)
(* Model of the podcast pipeline of twitter-audio: the retry wrapper, the  *)
(* text chunker of the speech-synthesis module, the section narrator, the  *)
(* script assembler, the speech-synthesis driver, the content grouper,     *)
(* the audio merger, the batched scraper and overlapping runs of main.     *)
(*                                                                         *)
(* A text is a sequence of one-character strings.  Every component has its *)
(* own variables and its own specification; a component that calls         *)
(* another one (the narrator and the synthesis driver call retryAsync)     *)
(* includes the callee's actions in its next-state relation.               *)
(***************************************************************************)
EXTENDS Integers, Sequences, FiniteSets, TLC

VARIABLES
    \* retryAsync (src/utils/error-handler.ts)
    rpc,          \* "idle" | "call" (fn in flight) | "wait" (delay timer) | "returned" | "raised"
    rN,           \* the retries argument of the outermost call
    retries,      \* the retries argument of the current (recursive) call
    rTrace,       \* what happened so far: fn invocations and onError calls, in order
    rResult,      \* the value returned or the error raised
    \* splitTextIntoChunks (services/tts)
    cText,        \* the text handed to the chunker
    cMax,         \* the character budget (MAX_TEXT_LENGTH)
    cChunks,      \* the chunks returned
    cpc,          \* "input" | "done"
    \* generateCombinedSection (services/converter)
    npc,          \* "idle" | "loop" | "await" | "done"
    nContents,    \* the bucket: the items to narrate, in order
    nChunks,      \* the bucket split into chunks of items
    ni,           \* the loop index i
    nResults,     \* the results array
    nCallLog,     \* how each processContentChunk call ended, in chunk order
    nReturn,      \* the text returned
    \* synthesizeSpeechWithElevenLabs (services/tts)
    spc,          \* "idle" | "loop" | "await" | "direct" | "returned" | "raised"
    sText,        \* the script to synthesize
    sChunks,      \* the chunks of the script
    si,           \* the loop index i
    tempFilePaths, \* the tempFilePaths array
    files,        \* the audio files that exist on disk
    sLog,         \* the synthesis requests, merges and deletions made, in order
    sError,       \* the error the call raised
    \* groupContentsByCategory (index.ts)
    gpc,          \* "idle" | "input" | "done"
    gContents,    \* the summarized items handed to the grouper
    gResult,      \* the GroupedContents returned
    \* createPodcastScript, generateStatisticalSummary (services/converter)
    ppc,          \* "idle" | "sections" | "await" | "summary" | "done"
    pGrouped,     \* the groupedContents argument
    pk,           \* how many sections are narrated
    techScript,   \* the techScript accumulator
    otherScript,  \* the otherScript accumulator
    pNarrated,    \* the generateCombinedSection calls made, in order
    pSummary,     \* how the statistics summary ended
    pSummaryCalls, \* the chat completion requests generateStatisticalSummary has made
    pScript,      \* the script returned
    \* mergeAudioFiles, generateSilence (utils/audio-utils.ts)
    mpc,          \* per call: "idle" | "generating" | "merging" | "returned" | "raised"
    mArgs,        \* per call: the audioFilePaths and the silenceDuration arguments
    mError,       \* per call: the error raised
    aFiles,       \* the audio files on disk, each a path with its content
    mLog,         \* the copies, silence generations and merges started, in order
    \* scrapeMultipleUrls (services/scraper)
    upc,          \* "idle" | "batch" | "done"
    uArg,         \* the urls argument
    uUrls,        \* uniqueUrls
    ui,           \* the loop index i
    uInFlight,    \* the positions in uniqueUrls whose scrapeUrl call is in flight
    uDone,        \* the positions in uniqueUrls whose scrapeUrl call has completed
    uResults,     \* the results array
    \* overlapping runs of main, from naming the output file to the end of synthesis
    kpc,          \* per run: "idle" | "synthesis" | "done"
    kName,        \* per run: outputFileName
    kChunks,      \* per run: the number of chunks of its script
    kWritten,     \* per run: the temporary chunk paths it has written, in order
    clock,        \* the wall clock, in minutes
    \* main (src/index.ts), one run
    wpc,          \* "idle" | "fetch" | "scrape" | "classify" | "subclassify" | "saveTweet" |
                  \* "summarize" | "script" | "synthesis" | "saveEpisode" | "disconnect" |
                  \* "returned" | "raised"
    wTweets,      \* tweets, as fetchRecentTweets returned them
    wi,           \* the position of the tweet the loop is at
    wCur,         \* category and subCategory of the tweet the loop is at
    wProcessed,   \* processedContents
    wMarked,      \* the ids handed to markTweetAsProcessed, in order
    wNarrated,    \* the items of the groups handed to createPodcastScript
    wArtifact,    \* whether textToSpeech has produced the audio file
    wEpisodes,    \* the records savePodcastEpisode has stored
    wFailed,      \* the kinds of call that have failed for good during the run
    wClassOk,     \* whether a classification call of the run has succeeded
    wCause,       \* the kind of call whose error main raised, or "none"
    wSkipped,     \* the links of the tweets the catch block of the loop has logged
    wCalled,      \* the functions main has called and awaited to their end
    wExit,        \* how main left its try block: "none" | "return" | "raise"
    wDisconnects, \* the calls of prisma.$disconnect() made
    \* summarizeContent (services/summarizer)
    zpc,          \* "idle" | "await" | "returned"
    zContent,     \* the content argument
    zReturn       \* the summary returned

retryVars == <<rpc, rN, retries, rTrace, rResult>>
chunkerVars == <<cText, cMax, cChunks, cpc>>
narratorVars == <<npc, nContents, nChunks, ni, nResults, nCallLog, nReturn>>
synthVars == <<spc, sText, sChunks, si, tempFilePaths, files, sLog, sError>>
grouperVars == <<gpc, gContents, gResult>>
scriptVars == <<ppc, pGrouped, pk, techScript, otherScript, pNarrated, pSummary,
                pSummaryCalls, pScript>>
audioVars == <<mpc, mArgs, mError, aFiles, mLog>>
scraperVars == <<upc, uArg, uUrls, ui, uInFlight, uDone, uResults>>
runVars == <<kpc, kName, kChunks, kWritten, clock>>
mainVars == <<wpc, wTweets, wi, wCur, wProcessed, wMarked, wNarrated, wArtifact, wEpisodes,
              wFailed, wClassOk, wCause, wSkipped, wCalled, wExit, wDisconnects>>
summarizerVars == <<zpc, zContent, zReturn>>
vars == <<retryVars, chunkerVars, narratorVars, synthVars, grouperVars, scriptVars, audioVars,
          scraperVars, runVars, mainVars, summarizerVars>>

\* what the actions of a component, and of the components it calls, leave alone
exceptRetry == <<chunkerVars, narratorVars, synthVars, grouperVars, scriptVars, audioVars,
    scraperVars, runVars, mainVars, summarizerVars>>
exceptChunker == <<retryVars, narratorVars, synthVars, grouperVars, scriptVars, audioVars,
    scraperVars, runVars, mainVars, summarizerVars>>
exceptNarrator == <<chunkerVars, synthVars, grouperVars, scriptVars, audioVars,
    scraperVars, runVars, mainVars, summarizerVars>>
exceptSynth == <<chunkerVars, narratorVars, grouperVars, scriptVars, audioVars,
    scraperVars, runVars, mainVars, summarizerVars>>
exceptGrouper == <<retryVars, chunkerVars, narratorVars, synthVars, scriptVars, audioVars,
    scraperVars, runVars, mainVars, summarizerVars>>
exceptScript == <<chunkerVars, synthVars, grouperVars, audioVars,
    scraperVars, runVars, mainVars, summarizerVars>>
exceptAudio ==
    <<retryVars, chunkerVars, narratorVars, synthVars, grouperVars, scriptVars,
      scraperVars, runVars, mainVars, summarizerVars>>
exceptScraper ==
    <<retryVars, chunkerVars, narratorVars, synthVars, grouperVars, scriptVars,
      audioVars, runVars, mainVars, summarizerVars>>
exceptRuns ==
    <<retryVars, chunkerVars, narratorVars, synthVars, grouperVars, scriptVars,
      audioVars, scraperVars, mainVars, summarizerVars>>
exceptMain ==
    <<retryVars, chunkerVars, narratorVars, synthVars, grouperVars, scriptVars,
      audioVars, scraperVars, runVars, summarizerVars>>
exceptMainAndRetry ==
    <<chunkerVars, narratorVars, synthVars, grouperVars, scriptVars,
      audioVars, scraperVars, runVars, summarizerVars>>
exceptSummarizer ==
    <<chunkerVars, narratorVars, synthVars, grouperVars, scriptVars,
      audioVars, scraperVars, runVars, mainVars>>

----------------------------------------------------------------------------
(* Bounds of the model *)

\* longest text handed to the chunker
MaxLen == 6
\* largest character budget tried (the program's MAX_TEXT_LENGTH is 4000)
MaxBudget == 4
\* largest retries argument tried for retryAsync
MaxRetries == 3
\* largest bucket handed to the narrator
MaxItems == 11
\* longest script handed to the synthesis driver
MaxScriptLen == 4
\* largest character budget tried for the synthesis driver
MaxSynthBudget == 3
\* longest list of items handed to the grouper
MaxGroupItems == 3
\* most buckets per primary category handed to the script assembler
MaxBuckets == 2
\* most items main groups and hands to createPodcastScript
MaxPipelineItems == 4
\* how many mergeAudioFiles calls are made, one after the other or overlapping
MaxMergeCalls == 2
\* most input files handed to one mergeAudioFiles call
MaxMergeInputs == 3
\* most distinct urls handed to scrapeMultipleUrls
MaxUrls == 7
\* how many runs of main overlap
MaxRuns == 2
\* most chunks of the script of a run
MaxRunChunks == 3
\* the last minute of the wall clock
MaxMinute == 2
\* the largest number of tweets fetchRecentTweets returns
MaxTweets == 2
\* the contents of summarizeContent are up to this much longer than the
\* prefix its fallback keeps
MaxOverflow == 2

----------------------------------------------------------------------------
(* Texts *)

NL == "\n"
SP == " "
\* what the regular expression class \s matches, among the characters modelled
Whitespace == {SP, NL}
\* the class [.!?] of the sentence split
SentenceEnd == {".", "!", "?"}

RECURSIVE Flatten(_)
Flatten(ss) == IF ss = <<>> THEN <<>> ELSE Head(ss) \o Flatten(Tail(ss))

RECURSIVE StripWhitespace(_)
StripWhitespace(s) ==
    IF s = <<>> THEN <<>>
    ELSE IF Head(s) \in Whitespace THEN StripWhitespace(Tail(s))
    ELSE <<Head(s)>> \o StripWhitespace(Tail(s))

\* number of consecutive characters of class cls in s from position i on
RECURSIVE RunLength(_, _, _)
RunLength(s, i, cls) ==
    IF i > Len(s) \/ s[i] \notin cls THEN 0 ELSE 1 + RunLength(s, i + 1, cls)

\* String.prototype.trim
RECURSIVE TrimStart(_)
TrimStart(s) ==
    IF s # <<>> /\ Head(s) \in Whitespace THEN TrimStart(Tail(s)) ELSE s

RECURSIVE TrimEnd(_)
TrimEnd(s) ==
    IF s # <<>> /\ s[Len(s)] \in Whitespace
    THEN TrimEnd(SubSeq(s, 1, Len(s) - 1)) ELSE s

Trim(s) == TrimEnd(TrimStart(s))

\* a number interpolated into a template string: its decimal digits
Digits == <<"0", "1", "2", "3", "4", "5", "6", "7", "8", "9">>
RECURSIVE NumText(_)
NumText(n) ==
    IF n < 10 THEN <<Digits[n + 1]>>
    ELSE NumText(n \div 10) \o <<Digits[(n % 10) + 1]>>

\* all texts over alphabet of length at most n
RECURSIVE TextsUpTo(_, _)
TextsUpTo(alphabet, n) ==
    IF n = 0 THEN {<<>>}
    ELSE LET shorter == TextsUpTo(alphabet, n - 1)
         IN shorter \cup {Append(s, c) : s \in {t \in shorter : Len(t) = n - 1}, c \in alphabet}

----------------------------------------------------------------------------
(* splitTextIntoChunks *)

\* text.split(/\n{2,}/): the pieces between runs of two or more newlines
RECURSIVE SplitParagraphsFrom(_, _, _, _)
SplitParagraphsFrom(s, i, cur, acc) ==
    IF i > Len(s) THEN Append(acc, cur)
    ELSE LET run == RunLength(s, i, {NL})
         IN IF run >= 2
            THEN SplitParagraphsFrom(s, i + run, <<>>, Append(acc, cur))
            ELSE SplitParagraphsFrom(s, i + 1, Append(cur, s[i]), acc)

SplitParagraphs(text) == SplitParagraphsFrom(text, 1, <<>>, <<>>)

\* paragraph.split(/(?<=[.!?])\s+/): the pieces between whitespace runs that
\* directly follow a sentence-ending character
RECURSIVE SplitSentencesFrom(_, _, _, _)
SplitSentencesFrom(s, i, cur, acc) ==
    IF i > Len(s) THEN Append(acc, cur)
    ELSE IF i > 1 /\ s[i - 1] \in SentenceEnd /\ s[i] \in Whitespace
         THEN SplitSentencesFrom(s, i + RunLength(s, i, Whitespace), <<>>, Append(acc, cur))
         ELSE SplitSentencesFrom(s, i + 1, Append(cur, s[i]), acc)

SplitSentences(paragraph) == SplitSentencesFrom(paragraph, 1, <<>>, <<>>)

\* the while loop over remainingSentence: pieces of max characters
HardSplitKeepsFirstPiece(sentence, max) ==
    IF Len(sentence) = 0 THEN <<>>
    ELSE IF Len(sentence) <= max THEN <<sentence>>
    ELSE <<SubSeq(sentence, 1, max)>>

RECURSIVE HardSplit(_, _)
HardSplit(sentence, max) ==
    IF Len(sentence) = 0 THEN <<>>
    ELSE IF Len(sentence) <= max THEN <<sentence>>
    ELSE <<SubSeq(sentence, 1, max)>> \o HardSplit(SubSeq(sentence, max + 1, Len(sentence)), max)

ParagraphFitsNoSeparator(currentChunk, paragraph, max) ==
    Len(currentChunk) + Len(paragraph) <= max

\* the test that decides whether the paragraph joins the current chunk
ParagraphFits(currentChunk, paragraph, max) ==
    Len(currentChunk) + Len(paragraph) + 2 <= max

SentenceFits(currentChunk, sentence, max) ==
    Len(currentChunk) + Len(sentence) + 1 <= max

\* one iteration of the loop over sentences; st = [chunks, currentChunk]
SentenceStep(st, sentence, max) ==
    IF SentenceFits(st.currentChunk, sentence, max)
    THEN [st EXCEPT !.currentChunk =
              IF st.currentChunk # <<>> THEN st.currentChunk \o <<SP>> \o sentence
              ELSE sentence]
    ELSE LET pushed == IF st.currentChunk # <<>>
                       THEN Append(st.chunks, st.currentChunk) ELSE st.chunks
         IN IF Len(sentence) > max
            THEN [chunks |-> pushed \o HardSplit(sentence, max), currentChunk |-> <<>>]
            ELSE [chunks |-> pushed, currentChunk |-> sentence]

RECURSIVE SentenceLoop(_, _, _)
SentenceLoop(st, sentences, max) ==
    IF sentences = <<>> THEN st
    ELSE SentenceLoop(SentenceStep(st, Head(sentences), max), Tail(sentences), max)

\* one iteration of the loop over paragraphs
ParagraphStep(st, paragraph, max) ==
    IF ParagraphFits(st.currentChunk, paragraph, max)
    THEN [st EXCEPT !.currentChunk =
              IF st.currentChunk # <<>> THEN st.currentChunk \o <<NL, NL>> \o paragraph
              ELSE paragraph]
    ELSE LET flushed == IF st.currentChunk # <<>>
                        THEN [chunks |-> Append(st.chunks, st.currentChunk), currentChunk |-> <<>>]
                        ELSE st
         IN IF Len(paragraph) > max
            THEN SentenceLoop(flushed, SplitSentences(paragraph), max)
            ELSE [flushed EXCEPT !.currentChunk = paragraph]

RECURSIVE ParagraphLoop(_, _, _)
ParagraphLoop(st, paragraphs, max) ==
    IF paragraphs = <<>> THEN st
    ELSE ParagraphLoop(ParagraphStep(st, Head(paragraphs), max), Tail(paragraphs), max)

WithinBudgetOrOneOver(text, max) == Len(text) <= max + 1

\* the test of the early return: the text goes back as the only chunk
WithinBudget(text, max) == Len(text) <= max

splitTextIntoChunks(text, max) ==
    IF WithinBudget(text, max) THEN <<text>>
    ELSE LET st == ParagraphLoop([chunks |-> <<>>, currentChunk |-> <<>>],
                                 SplitParagraphs(text), max)
         IN IF st.currentChunk # <<>> THEN Append(st.chunks, st.currentChunk) ELSE st.chunks

----------------------------------------------------------------------------
(* The chunker on its own: every text up to MaxLen under every budget *)

ChunkerAlphabet == {"a", ".", SP, NL}

ChunkerIdle ==
    /\ cText = <<>>
    /\ cMax = 1
    /\ cChunks = <<>>
    /\ cpc = "idle"

InitChunker ==
    /\ cText \in TextsUpTo(ChunkerAlphabet, MaxLen)
    /\ cMax \in 1..MaxBudget
    /\ cChunks = <<>>
    /\ cpc = "input"

Split ==
    /\ cpc = "input"
    /\ cChunks' = splitTextIntoChunks(cText, cMax)
    /\ cpc' = "done"
    /\ UNCHANGED <<cText, cMax>>

----------------------------------------------------------------------------
(* retryAsync *)

NoResult == [kind |-> "none", val |-> <<>>, at |-> 0]

RetryIdle ==
    /\ rpc = "idle"
    /\ rN = 0
    /\ retries = 0
    /\ rTrace = <<>>
    /\ rResult = NoResult

\* the fn invocations made so far
FnEvents == SelectSeq(rTrace, LAMBDA e : e.ev = "fn")
\* the onError calls made so far
OnErrorEvents == SelectSeq(rTrace, LAMBDA e : e.ev = "onError")
Calls == Len(FnEvents)

\* outcomes of one fn invocation: a value, or an error; both are tagged with
\* the number of the invocation that produced them
Success(v) == [ok |-> TRUE, val |-> v, at |-> Calls + 1]
Failure(e) == [ok |-> FALSE, val |-> <<e>>, at |-> Calls + 1]

GivesUpOneEarly(r) == r <= 1

\* the test `retries <= 0` of the catch block
GivesUp(r) == r <= 0

\* retryAsync(fn, n, delay, onError) is called: fn is invoked
RetryBegin(n) ==
    /\ rpc' = "call"
    /\ rN' = n
    /\ retries' = n
    /\ rTrace' = <<>>
    /\ rResult' = NoResult

RetrySettleOnErrorFirst(out) ==
    /\ rpc = "call"
    /\ UNCHANGED <<rN, retries>>
    /\ LET fnEv == [ev |-> "fn", ok |-> out.ok, val |-> out.val, at |-> out.at]
           onErrorEv == [ev |-> "onError", ok |-> FALSE, val |-> <<>>, at |-> retries]
       IN IF out.ok
          THEN /\ rpc' = "returned"
               /\ rTrace' = Append(rTrace, fnEv)
               /\ rResult' = [kind |-> "value", val |-> out.val, at |-> out.at]
          ELSE IF GivesUp(retries)
          THEN /\ rpc' = "raised"
               /\ rTrace' = rTrace \o <<fnEv, onErrorEv>>
               /\ rResult' = [kind |-> "error", val |-> out.val, at |-> out.at]
          ELSE /\ rpc' = "wait"
               /\ rTrace' = rTrace \o <<fnEv, onErrorEv>>
               /\ UNCHANGED rResult

\* the promise of fn settles: return its value, or run the catch block up to
\* the await of the delay timer
RetrySettle(out) ==
    /\ rpc = "call"
    /\ UNCHANGED <<rN, retries>>
    /\ LET fnEv == [ev |-> "fn", ok |-> out.ok, val |-> out.val, at |-> out.at]
       IN IF out.ok
          THEN /\ rpc' = "returned"
               /\ rTrace' = Append(rTrace, fnEv)
               /\ rResult' = [kind |-> "value", val |-> out.val, at |-> out.at]
          ELSE IF GivesUp(retries)
          THEN /\ rpc' = "raised"
               /\ rTrace' = Append(rTrace, fnEv)
               /\ rResult' = [kind |-> "error", val |-> out.val, at |-> out.at]
          ELSE /\ rpc' = "wait"
               /\ rTrace' = rTrace \o <<fnEv, [ev |-> "onError", ok |-> FALSE,
                                                val |-> <<>>, at |-> retries]>>
               /\ UNCHANGED rResult

RetriesKept(r) == r

\* the argument `retries - 1` of the recursive call
RetriesLeft(r) == r - 1

\* the delay timer fires: the recursive call invokes fn again
RetryTimer ==
    /\ rpc = "wait"
    /\ rpc' = "call"
    /\ retries' = RetriesLeft(retries)
    /\ UNCHANGED <<rN, rTrace, rResult>>


RetryReset ==
    /\ rpc' = "idle"
    /\ rN' = 0
    /\ retries' = 0
    /\ rTrace' = <<>>
    /\ rResult' = NoResult

----------------------------------------------------------------------------
(* postProcessText: the cleanup pass over a narrated section.              *)
(* A narration text is a sequence of tokens: NL, SP, an ordinary character *)
(* "x", the punctuation marks TOUTEN and KUTEN, and one token for each     *)
(* phrase the regular expressions of postProcessText look for.             *)

TOUTEN == "ten"                \* the ideographic comma
KUTEN == "maru"                \* the ideographic full stop
KONNICHIWA == "konnichiwa"
KYOUWA == "kyouwa"
SAIGONI == "saigoni"
MATA == "mata"
IJOUGA == "ijouga"
KONKAIWA == "konkaiwa"
KONKAINO == "konkaino"
MATOMERUTO == "matomeruto"
SATE == "sate"
DEWA == "dewa"
SOREDEWA == "soredewa"

\* the first position at or after i that holds a newline, or Len(s) + 1:
\* where `.+?(?=\n|$)` stops
RECURSIVE LineEnd(_, _)
LineEnd(s, i) == IF i > Len(s) \/ s[i] = NL THEN i ELSE LineEnd(s, i + 1)

HasPrefixAt(s, i, p) ==
    i + Len(p) - 1 <= Len(s) /\ SubSeq(s, i, i + Len(p) - 1) = p

\* s.replace(/H.+?(?=\n|$)/g, "") for the alternatives H in heads: from H to
\* the end of its line, when at least one character follows H on the line
RECURSIVE DeleteToLineEndFrom(_, _, _, _)
DeleteToLineEndFrom(s, i, heads, acc) ==
    IF i > Len(s) THEN acc
    ELSE LET hs == {h \in heads : /\ HasPrefixAt(s, i, h)
                                  /\ i + Len(h) <= Len(s)
                                  /\ s[i + Len(h)] # NL}
         IN IF hs # {}
            THEN LET h == CHOOSE h \in hs : TRUE
                 IN DeleteToLineEndFrom(s, LineEnd(s, i + Len(h) + 1), heads, acc)
            ELSE DeleteToLineEndFrom(s, i + 1, heads, Append(acc, s[i]))

DeleteToLineEnd(s, heads) == DeleteToLineEndFrom(s, 1, heads, <<>>)

\* the end (exclusive) of the longest match of ([^KUTEN]+)(?=\n|$) that starts
\* at i, or 0 when there is none
RECURSIVE KyouwaRunEnd(_, _, _)
KyouwaRunEnd(s, i, best) ==
    IF i > Len(s) THEN i
    ELSE IF s[i] = KUTEN THEN best
    ELSE KyouwaRunEnd(s, i + 1, IF i + 1 > Len(s) \/ s[i + 1] = NL THEN i + 1 ELSE best)

\* s.replace(/kyouwa([^KUTEN]+)(?=\n|$)/g, "$1")
RECURSIVE StripKyouwaFrom(_, _, _)
StripKyouwaFrom(s, i, acc) ==
    IF i > Len(s) THEN acc
    ELSE LET e == IF s[i] = KYOUWA /\ i + 1 <= Len(s) /\ s[i + 1] # KUTEN
                  THEN KyouwaRunEnd(s, i + 1, 0) ELSE 0
         IN IF e > i + 1
            THEN StripKyouwaFrom(s, e, acc \o SubSeq(s, i + 1, e - 1))
            ELSE StripKyouwaFrom(s, i + 1, Append(acc, s[i]))

\* s.replace(/saigoni,?/g, "mata,")
RECURSIVE ReplaceSaigoniFrom(_, _, _)
ReplaceSaigoniFrom(s, i, acc) ==
    IF i > Len(s) THEN acc
    ELSE IF s[i] = SAIGONI
         THEN ReplaceSaigoniFrom(s, IF HasPrefixAt(s, i + 1, <<TOUTEN>>) THEN i + 2 ELSE i + 1,
                                 acc \o <<MATA, TOUTEN>>)
         ELSE ReplaceSaigoniFrom(s, i + 1, Append(acc, s[i]))

\* s.replace(/^(sate,|dewa,|soredewa,)/gm, "")
RECURSIVE StripLeadingConjunctionFrom(_, _, _)
StripLeadingConjunctionFrom(s, i, acc) ==
    IF i > Len(s) THEN acc
    ELSE IF /\ (i = 1 \/ s[i - 1] = NL)
            /\ s[i] \in {SATE, DEWA, SOREDEWA}
            /\ HasPrefixAt(s, i + 1, <<TOUTEN>>)
         THEN StripLeadingConjunctionFrom(s, i + 2, acc)
         ELSE StripLeadingConjunctionFrom(s, i + 1, Append(acc, s[i]))

\* s.replace(/\n{3,}/g, "\n\n")
RECURSIVE CollapseNewlinesFrom(_, _, _)
CollapseNewlinesFrom(s, i, acc) ==
    IF i > Len(s) THEN acc
    ELSE LET run == RunLength(s, i, {NL})
         IN IF run >= 3
            THEN CollapseNewlinesFrom(s, i + run, acc \o <<NL, NL>>)
            ELSE CollapseNewlinesFrom(s, i + 1, Append(acc, s[i]))

postProcessText(text) ==
    LET p1 == DeleteToLineEnd(text, {<<KONNICHIWA, TOUTEN>>, <<KONNICHIWA, KUTEN>>})
        p2 == StripKyouwaFrom(p1, 1, <<>>)
        p3 == ReplaceSaigoniFrom(p2, 1, <<>>)
        p4 == DeleteToLineEnd(p3, {<<IJOUGA>>})
        p5 == DeleteToLineEnd(p4, {<<KONKAIWA>>, <<KONKAINO>>})
        p6 == DeleteToLineEnd(p5, {<<MATOMERUTO>>})
        p7 == StripLeadingConjunctionFrom(p6, 1, <<>>)
    IN CollapseNewlinesFrom(p7, 1, <<>>)

----------------------------------------------------------------------------
(* generateCombinedSection, splitContentsIntoChunks, processContentChunk *)

\* chunkSize of splitContentsIntoChunks
CHUNK_SIZE == 5
\* the retries processContentChunk hands to retryAsync
NARRATION_RETRIES == 2

\* the fallback message pushed for a chunk whose call raised
PLACEHOLDER == <<"kono section no contents wa shori dekimasen deshita", KUTEN>>

Min(a, b) == IF a <= b THEN a ELSE b

\* for (i = 0; i < contents.length; i += chunkSize) chunks.push(contents.slice(i, i + chunkSize))
RECURSIVE SplitContentsOverlapping(_, _)
SplitContentsOverlapping(contents, i) ==
    IF i >= Len(contents) THEN <<>>
    ELSE <<SubSeq(contents, i + 1, Min(i + CHUNK_SIZE + 1, Len(contents)))>>
             \o SplitContentsOverlapping(contents, i + CHUNK_SIZE)

RECURSIVE SplitContentsFrom(_, _)
SplitContentsFrom(contents, i) ==
    IF i >= Len(contents) THEN <<>>
    ELSE <<SubSeq(contents, i + 1, Min(i + CHUNK_SIZE, Len(contents)))>>
             \o SplitContentsFrom(contents, i + CHUNK_SIZE)

splitContentsIntoChunks(contents) == SplitContentsFrom(contents, 0)

\* results.join(sep)
RECURSIVE Join(_, _)
Join(texts, sep) ==
    IF texts = <<>> THEN <<>>
    ELSE IF Len(texts) = 1 THEN Head(texts)
    ELSE Head(texts) \o sep \o Join(Tail(texts), sep)

\* what the chat completion may hold as message.content; the empty text
\* stands for a null or empty content
NarrationResponses ==
    { <<>>,
      <<SP, NL>>,
      <<"x", KUTEN>>,
      <<KONKAIWA, "x", KUTEN>>,
      <<KONNICHIWA, TOUTEN, "x", KUTEN, NL, NL, SAIGONI, TOUTEN, KYOUWA, "x", KUTEN, SP>> }

\* a less varied set for the script assembler, which narrates many chunks
ScriptNarrationResponses == {<<>>, <<KONNICHIWA, TOUTEN, "x", NL, "x", KUTEN>>}

\* the responses tried
ResponsesOffered == IF ppc = "idle" THEN NarrationResponses ELSE ScriptNarrationResponses

NarratorIdle ==
    /\ npc = "idle"
    /\ nContents = <<>>
    /\ nChunks = <<>>
    /\ ni = 0
    /\ nResults = <<>>
    /\ nCallLog = <<>>
    /\ nReturn = <<>>

\* generateCombinedSection(contents, categoryName) is called
NarratorBegin(contents) ==
    /\ npc' = "loop"
    /\ nContents' = contents
    /\ nChunks' = splitContentsIntoChunks(contents)
    /\ ni' = 0
    /\ nResults' = <<>>
    /\ nCallLog' = <<>>
    /\ nReturn' = <<>>

\* loop head, i < chunks.length: processContentChunk(chunk, categoryName, i === 0)
\* builds its prompt and calls retryAsync(..., 2, 1000, ...)
ProcessContentChunk ==
    /\ npc = "loop"
    /\ ni < Len(nChunks)
    /\ rpc = "idle"
    /\ RetryBegin(NARRATION_RETRIES)
    /\ npc' = "await"
    /\ UNCHANGED <<nContents, nChunks, ni, nResults, nCallLog, nReturn>>
    /\ UNCHANGED exceptNarrator

\* the chat completion request raises
NarrationApiFails ==
    /\ npc = "await"
    /\ RetrySettle(Failure("ApiError"))
    /\ UNCHANGED narratorVars
    /\ UNCHANGED exceptNarrator

\* the chat completion answers: `if (!response) throw ...; return response.trim()`
NarrationApiAnswers ==
    /\ npc = "await"
    /\ \E response \in ResponsesOffered :
          IF response = <<>>
          THEN RetrySettle(Failure("EmptyResponse"))
          ELSE RetrySettle(Success(Trim(response)))
    /\ UNCHANGED narratorVars
    /\ UNCHANGED exceptNarrator

NarrationDelayElapses ==
    /\ npc = "await"
    /\ RetryTimer
    /\ UNCHANGED narratorVars
    /\ UNCHANGED exceptNarrator

\* the catch block of the loop body: results.push(<fallback message>)
PushPlaceholder(results) == Append(results, PLACEHOLDER)

\* processContentChunk returned: results.push(result); i++
ChunkNarrated ==
    /\ npc = "await"
    /\ rpc = "returned"
    /\ nResults' = Append(nResults, rResult.val)
    /\ nCallLog' = Append(nCallLog, rResult)
    /\ ni' = ni + 1
    /\ npc' = "loop"
    /\ RetryReset
    /\ UNCHANGED <<nContents, nChunks, nReturn>>
    /\ UNCHANGED exceptNarrator

\* processContentChunk raised: the catch block pushes the fallback; i++
ChunkFailed ==
    /\ npc = "await"
    /\ rpc = "raised"
    /\ nResults' = PushPlaceholder(nResults)
    /\ nCallLog' = Append(nCallLog, rResult)
    /\ ni' = ni + 1
    /\ npc' = "loop"
    /\ RetryReset
    /\ UNCHANGED <<nContents, nChunks, nReturn>>
    /\ UNCHANGED exceptNarrator

\* loop exit: return results.join("\n\n")
NarratorReturn ==
    /\ npc = "loop"
    /\ ni >= Len(nChunks)
    /\ nReturn' = Join(nResults, <<NL, NL>>)
    /\ npc' = "done"
    /\ UNCHANGED <<nContents, nChunks, ni, nResults, nCallLog>>
    /\ UNCHANGED retryVars
    /\ UNCHANGED exceptNarrator

----------------------------------------------------------------------------
(* synthesizeSpeechWithElevenLabs, processChunk, mergeAudioFiles (tts) *)

\* the retries processChunk hands to retryAsync
SYNTHESIS_RETRIES == 2

\* a file name is a sequence of name parts
\* path.basename(finalOutputPath)
OutputName == <<"podcast.mp3">>
\* `temp_chunk_${i}_${path.basename(finalOutputPath)}`
TempChunkName(i, base) == <<"temp_chunk_">> \o NumText(i) \o <<"_">> \o base

NoError == [kind |-> "none", at |-> 0]

SynthIdle ==
    /\ spc = "idle"
    /\ sText = <<>>
    /\ sChunks = <<>>
    /\ si = 0
    /\ tempFilePaths = <<>>
    /\ files = {}
    /\ sLog = <<>>
    /\ sError = NoError

IsEmptyUntrimmed(text) == Len(text) = 0

\* !text || text.trim().length === 0
IsEmptyText(text) == Len(text) = 0 \/ Len(Trim(text)) = 0

\* synthesizeSpeechWithElevenLabs(text, voiceId, outputPath) is called: the
\* empty-text check, then either the split and the first loop test, or the
\* direct processChunk call
SynthBegin(text) ==
    /\ sText' = text
    /\ si' = 0
    /\ tempFilePaths' = <<>>
    /\ UNCHANGED files
    /\ IF IsEmptyText(text)
       THEN /\ spc' = "raised"
            /\ sError' = [kind |-> "empty", at |-> 0]
            /\ sChunks' = <<>>
            /\ sLog' = <<>>
            /\ UNCHANGED retryVars
       ELSE IF Len(text) > cMax
       THEN /\ spc' = "loop"
            /\ sChunks' = splitTextIntoChunks(text, cMax)
            /\ sLog' = <<>>
            /\ sError' = NoError
            /\ UNCHANGED retryVars
       ELSE /\ spc' = "direct"
            /\ sChunks' = <<>>
            /\ sLog' = <<[ev |-> "synthesize", path |-> OutputName, ok |-> TRUE]>>
            /\ sError' = NoError
            /\ RetryBegin(SYNTHESIS_RETRIES)

\* loop head, i < chunks.length: processChunk(chunk, voiceId, chunkPath) calls
\* retryAsync(..., 2, 2000, ...)
ProcessChunk ==
    /\ spc = "loop"
    /\ si < Len(sChunks)
    /\ rpc = "idle"
    /\ RetryBegin(SYNTHESIS_RETRIES)
    /\ spc' = "await"
    /\ sLog' = Append(sLog, [ev |-> "synthesize", path |-> TempChunkName(si, OutputName),
                             ok |-> TRUE])
    /\ UNCHANGED <<sText, sChunks, si, tempFilePaths, files, sError>>
    /\ UNCHANGED exceptSynth

CurrentTargetTemporary == TempChunkName(si, OutputName)

\* the path the request in flight writes to
CurrentTarget == IF spc = "direct" THEN OutputName ELSE TempChunkName(si, OutputName)

\* the synthesis request raises: nothing is written
SynthesisApiFails ==
    /\ spc \in {"await", "direct"}
    /\ RetrySettle(Failure("ApiError"))
    /\ UNCHANGED synthVars
    /\ UNCHANGED exceptSynth

\* the synthesis request answers: fs.writeFileSync(outputPath, response.data)
SynthesisApiAnswers ==
    /\ spc \in {"await", "direct"}
    /\ RetrySettle(Success(<<>>))
    /\ files' = files \cup {CurrentTarget}
    /\ UNCHANGED <<spc, sText, sChunks, si, tempFilePaths, sLog, sError>>
    /\ UNCHANGED exceptSynth

SynthesisDelayElapses ==
    /\ spc \in {"await", "direct"}
    /\ RetryTimer
    /\ UNCHANGED synthVars
    /\ UNCHANGED exceptSynth

ChunkSynthesizedPrepended ==
    /\ spc = "await"
    /\ rpc = "returned"
    /\ tempFilePaths' = <<TempChunkName(si, OutputName)>> \o tempFilePaths
    /\ si' = si + 1
    /\ spc' = "loop"
    /\ RetryReset
    /\ UNCHANGED <<sText, sChunks, files, sLog, sError>>
    /\ UNCHANGED exceptSynth

\* processChunk returned in the loop: tempFilePaths.push(chunkPath); i++
ChunkSynthesized ==
    /\ spc = "await"
    /\ rpc = "returned"
    /\ tempFilePaths' = Append(tempFilePaths, TempChunkName(si, OutputName))
    /\ si' = si + 1
    /\ spc' = "loop"
    /\ RetryReset
    /\ UNCHANGED <<sText, sChunks, files, sLog, sError>>
    /\ UNCHANGED exceptSynth

ChunkSynthesisFailureSkipped ==
    /\ spc = "await"
    /\ rpc = "raised"
    /\ si' = si + 1
    /\ spc' = "loop"
    /\ sError' = [kind |-> "chunk", at |-> si]
    /\ RetryReset
    /\ UNCHANGED <<sText, sChunks, tempFilePaths, files, sLog>>
    /\ UNCHANGED exceptSynth

\* processChunk raised in the loop: the outer catch logs and rethrows
ChunkSynthesisFailed ==
    /\ spc = "await"
    /\ rpc = "raised"
    /\ spc' = "raised"
    /\ sError' = [kind |-> "chunk", at |-> si]
    /\ RetryReset
    /\ UNCHANGED <<sText, sChunks, si, tempFilePaths, files, sLog>>
    /\ UNCHANGED exceptSynth

\* the direct processChunk call returned: return finalOutputPath
DirectSynthesized ==
    /\ spc = "direct"
    /\ rpc = "returned"
    /\ spc' = "returned"
    /\ RetryReset
    /\ UNCHANGED <<sText, sChunks, si, tempFilePaths, files, sLog, sError>>
    /\ UNCHANGED exceptSynth

\* the direct processChunk call raised: the outer catch logs and rethrows
DirectSynthesisFailed ==
    /\ spc = "direct"
    /\ rpc = "raised"
    /\ spc' = "raised"
    /\ sError' = [kind |-> "direct", at |-> 0]
    /\ RetryReset
    /\ UNCHANGED <<sText, sChunks, si, tempFilePaths, files, sLog>>
    /\ UNCHANGED exceptSynth

\* what logMessage appends for a deletion that raised: it awaits saveLogEntry
\* inside its own try block, and returns whether the save resolved or not
LogEvents(path, unsaved) == <<[ev |-> "log", path |-> path, ok |-> path \notin unsaved]>>

RECURSIVE UnlinkEventsUpToFailure(_, _, _)
UnlinkEventsUpToFailure(paths, failing, unsaved) ==
    IF paths = <<>> THEN <<>>
    ELSE IF Head(paths) \in failing
    THEN <<[ev |-> "unlink", path |-> Head(paths), ok |-> FALSE]>>
             \o LogEvents(Head(paths), unsaved)
    ELSE <<[ev |-> "unlink", path |-> Head(paths), ok |-> TRUE]>>
             \o UnlinkEventsUpToFailure(Tail(paths), failing, unsaved)

\* the deletion loop: fs.unlinkSync(tempPath) for every entry of tempFilePaths,
\* in order; a deletion that raises is logged and the loop goes on
RECURSIVE UnlinkEvents(_, _, _)
UnlinkEvents(paths, failing, unsaved) ==
    IF paths = <<>> THEN <<>>
    ELSE <<[ev |-> "unlink", path |-> Head(paths), ok |-> Head(paths) \notin failing]>>
             \o (IF Head(paths) \in failing THEN LogEvents(Head(paths), unsaved) ELSE <<>>)
             \o UnlinkEvents(Tail(paths), failing, unsaved)

Range(f) == {f[x] : x \in DOMAIN f}

\* loop exit: mergeAudioFiles(tempFilePaths, finalOutputPath) runs ffmpeg,
\* which writes the output file; then the temporary files are deleted, each
\* deletion that raises is logged (the log entry is saved or not), and
\* finalOutputPath is returned
MergeSucceeds ==
    /\ spc = "loop"
    /\ si >= Len(sChunks)
    /\ \E failing \in SUBSET Range(tempFilePaths) : \E unsaved \in SUBSET failing :
          /\ sLog' = Append(sLog, [ev |-> "merge", path |-> OutputName, ok |-> TRUE])
                        \o UnlinkEvents(tempFilePaths, failing, unsaved)
          /\ files' = (files \cup {OutputName}) \ (Range(tempFilePaths) \ failing)
    /\ spc' = "returned"
    /\ UNCHANGED <<sText, sChunks, si, tempFilePaths, sError>>
    /\ UNCHANGED retryVars
    /\ UNCHANGED exceptSynth

\* ffmpeg fails: mergeAudioFiles logs and rethrows, and so does the outer
\* catch; ffmpeg may or may not have left an output file behind
MergeFails ==
    /\ spc = "loop"
    /\ si >= Len(sChunks)
    /\ sLog' = Append(sLog, [ev |-> "merge", path |-> OutputName, ok |-> FALSE])
    /\ \E partial \in BOOLEAN :
          files' = IF partial THEN files \cup {OutputName} ELSE files
    /\ spc' = "raised"
    /\ sError' = [kind |-> "merge", at |-> 0]
    /\ UNCHANGED <<sText, sChunks, si, tempFilePaths>>
    /\ UNCHANGED retryVars
    /\ UNCHANGED exceptSynth

----------------------------------------------------------------------------
(* The synthesis driver on its own: every script up to MaxScriptLen *)

Synthesize ==
    /\ spc = "idle"
    /\ \E text \in TextsUpTo(ChunkerAlphabet, MaxScriptLen) : SynthBegin(text)
    /\ UNCHANGED exceptSynth

----------------------------------------------------------------------------
(* groupContentsByCategory (index.ts) *)

TECH == "TECH"
OTHER_CONTENT == "OTHER"
OTHER_TECH == "OTHER_TECH"
OTHER_GENERAL == "OTHER_GENERAL"
\* a subCategory that is undefined, null or the empty string
Absent == ""

\* a GroupedContents side is the sequence of its buckets [key, contents] in the
\* order the keys were inserted, which is the order Object.entries lists them

SubCategoryAsIs(content, fallback) == content.subCategory

\* content.subCategory || fallback
SubCategoryOr(content, fallback) ==
    IF content.subCategory = Absent THEN fallback ELSE content.subCategory

HasBucket(buckets, key) == \E k \in 1..Len(buckets) : buckets[k].key = key

BucketCreatedEmpty(buckets, subCat, content) ==
    IF HasBucket(buckets, subCat)
    THEN LET k == CHOOSE k \in 1..Len(buckets) : buckets[k].key = subCat
         IN [buckets EXCEPT ![k].contents = Append(@, content)]
    ELSE Append(buckets, [key |-> subCat, contents |-> <<>>])

\* if (!result[subCat]) result[subCat] = []; result[subCat].push(content)
PushToBucket(buckets, subCat, content) ==
    IF HasBucket(buckets, subCat)
    THEN LET k == CHOOSE k \in 1..Len(buckets) : buckets[k].key = subCat
         IN [buckets EXCEPT ![k].contents = Append(@, content)]
    ELSE Append(buckets, [key |-> subCat, contents |-> <<content>>])

\* the forEach over the contents of one primary category
RECURSIVE GroupBySubCategory(_, _, _)
GroupBySubCategory(contents, fallback, buckets) ==
    IF contents = <<>> THEN buckets
    ELSE GroupBySubCategory(Tail(contents), fallback,
             PushToBucket(buckets, SubCategoryOr(Head(contents), fallback), Head(contents)))

groupContentsByCategory(contents) ==
    [tech |-> GroupBySubCategory(SelectSeq(contents, LAMBDA c : c.category = TECH),
                                 OTHER_TECH, <<>>),
     other |-> GroupBySubCategory(SelectSeq(contents, LAMBDA c : c.category = OTHER_CONTENT),
                                  OTHER_GENERAL, <<>>)]

NoGroups == [tech |-> <<>>, other |-> <<>>]

GrouperIdle ==
    /\ gpc = "idle"
    /\ gContents = <<>>
    /\ gResult = NoGroups

\* the subCategory values tried: two of each taxonomy, a value outside both
\* taxonomies, and none
SubCategoryValues == {"AI_ML", "TOOLS", "NEWS", "HOBBY", OTHER_TECH, "UNLISTED", Absent}

\* the lists of up to n items; an item's id is its position in the list
ItemLists(n) ==
    UNION {[1..k -> [category : {TECH, OTHER_CONTENT}, subCategory : SubCategoryValues]] : k \in 0..n}

WithIds(kinds) ==
    [i \in 1..Len(kinds) |->
        [id |-> i, category |-> kinds[i].category, subCategory |-> kinds[i].subCategory]]

InitGrouper ==
    /\ gpc = "input"
    /\ gContents \in {WithIds(kinds) : kinds \in ItemLists(MaxGroupItems)}
    /\ gResult = NoGroups

Group ==
    /\ gpc = "input"
    /\ gResult' = groupContentsByCategory(gContents)
    /\ gpc' = "done"
    /\ UNCHANGED gContents

----------------------------------------------------------------------------
(* createPodcastScript, generateStatisticalSummary (services/converter) *)

\* SubCategoryNames[subCat] || fallback
SubCategoryNames ==
    [k \in {"PROGRAMMING_LANGUAGE", "FRAMEWORK", "AI_ML", "TOOLS", "WEB_DEV", OTHER_TECH,
            "NEWS", "ENTERTAINMENT", "LIFESTYLE", "HOBBY", OTHER_GENERAL} |->
        CASE k = "PROGRAMMING_LANGUAGE" -> "programming gengo"
          [] k = "FRAMEWORK" -> "framework"
          [] k = "AI_ML" -> "AI kikai gakushuu"
          [] k = "TOOLS" -> "kaihatsu tool"
          [] k = "WEB_DEV" -> "Web kaihatsu"
          [] k = OTHER_TECH -> "sonota gijutsu topic"
          [] k = "NEWS" -> "news"
          [] k = "ENTERTAINMENT" -> "entertainment"
          [] k = "LIFESTYLE" -> "lifestyle"
          [] k = "HOBBY" -> "shumi"
          [] OTHER -> "sonota no wadai"]

SubCategoryName(subCat, fallback) ==
    IF subCat \in DOMAIN SubCategoryNames THEN SubCategoryNames[subCat] ELSE fallback

\* Array.prototype.sort with (countA, countB) => countB - countA: stable, so
\* buckets of equal count keep their insertion order
RECURSIVE InsertBeforeEqualCount(_, _)
InsertBeforeEqualCount(sorted, bucket) ==
    IF sorted = <<>> THEN <<bucket>>
    ELSE IF Len(Head(sorted).contents) > Len(bucket.contents)
         THEN <<Head(sorted)>> \o InsertBeforeEqualCount(Tail(sorted), bucket)
         ELSE <<bucket>> \o sorted

RECURSIVE InsertByCount(_, _)
InsertByCount(sorted, bucket) ==
    IF sorted = <<>> THEN <<bucket>>
    ELSE IF Len(Head(sorted).contents) >= Len(bucket.contents)
         THEN <<Head(sorted)>> \o InsertByCount(Tail(sorted), bucket)
         ELSE <<bucket>> \o sorted

RECURSIVE SortByCount(_, _)
SortByCount(buckets, sorted) ==
    IF buckets = <<>> THEN sorted
    ELSE SortByCount(Tail(buckets), InsertByCount(sorted, Head(buckets)))

IsSmallUpToThree(contents, subCategories) == Len(contents) <= 3 /\ subCategories > 1

\* the test `contents.length <= 2 && sortedSubCategories.length > 1`
IsSmall(contents, subCategories) == Len(contents) <= 2 /\ subCategories > 1

RECURSIVE CountAll(_)
CountAll(buckets) ==
    IF buckets = <<>> THEN 0 ELSE Len(Head(buckets).contents) + CountAll(Tail(buckets))

RECURSIVE FlattenBuckets(_)
FlattenBuckets(buckets) ==
    IF buckets = <<>> THEN <<>> ELSE Head(buckets).contents \o FlattenBuckets(Tail(buckets))

TechIntro(name) == <<NL, "## ", name, " ni kansuru wadai", NL, NL>>
OtherIntro(name) == <<NL, "## ", name, NL, NL>>
CombinedTechIntro == <<NL, "## sonota no gijutsu topic", NL, NL>>
CombinedOtherIntro == <<NL, "## sonota no wadai", NL, NL>>
SectionsOfMergingLoneBucket(buckets, category) ==
    LET sorted == SortByCount(buckets, <<>>)
        n == Len(sorted)
        single == SelectSeq(sorted, LAMBDA b : ~IsSmall(b.contents, n))
        small == SelectSeq(sorted, LAMBDA b : Len(b.contents) <= 2)
        combined == FlattenBuckets(small)
    IN [k \in 1..Len(single) |->
           LET name == SubCategoryName(single[k].key,
                           IF category = TECH THEN "sonota gijutsu topic"
                           ELSE "sonota no wadai")
           IN [category |-> category, key |-> single[k].key, label |-> name,
               intro |-> IF category = TECH THEN TechIntro(name) ELSE OtherIntro(name),
               contents |-> single[k].contents]]
       \o IF small # <<>> /\ combined # <<>>
          THEN <<[category |-> category, key |-> "(small)",
                  label |-> IF category = TECH THEN "sonota gijutsu topic"
                            ELSE "sonota no wadai",
                  intro |-> IF category = TECH THEN CombinedTechIntro
                            ELSE CombinedOtherIntro,
                  contents |-> combined]>>
          ELSE <<>>

\* the generateCombinedSection calls createPodcastScript makes for one primary
\* category, in order: one per bucket that is not small, in sorted order, then
\* one for the small buckets together
SectionsOf(buckets, category) ==
    LET sorted == SortByCount(buckets, <<>>)
        n == Len(sorted)
        single == SelectSeq(sorted, LAMBDA b : ~IsSmall(b.contents, n))
        small == SelectSeq(sorted, LAMBDA b : IsSmall(b.contents, n))
        combined == FlattenBuckets(small)
    IN [k \in 1..Len(single) |->
           LET name == SubCategoryName(single[k].key,
                           IF category = TECH THEN "sonota gijutsu topic"
                           ELSE "sonota no wadai")
           IN [category |-> category, key |-> single[k].key, label |-> name,
               intro |-> IF category = TECH THEN TechIntro(name) ELSE OtherIntro(name),
               contents |-> single[k].contents]]
       \o IF small # <<>> /\ combined # <<>>
          THEN <<[category |-> category, key |-> "(small)",
                  label |-> IF category = TECH THEN "sonota gijutsu topic"
                            ELSE "sonota no wadai",
                  intro |-> IF category = TECH THEN CombinedTechIntro
                            ELSE CombinedOtherIntro,
                  contents |-> combined]>>
          ELSE <<>>

AllSections(grouped) == SectionsOf(grouped.tech, TECH) \o SectionsOf(grouped.other, OTHER_CONTENT)

\* the fixed opening and the fixed ending of the script
OPENING ==
    <<"hai! mutsumix no saisho wa good to me!", NL, NL,
      "kono bangumi wa ... soredewa sassoku shoukai shite ikimasu.", NL, NL>>
CONCLUSION ==
    <<"mutsumix no saisho wa good to me!, konshuu wa ijou desu. ... bai cha!">>

TechSection(techCount, script) ==
    IF techCount > 0
    THEN <<"konshuu no gijutsukei no wadai wa ">> \o NumText(techCount)
             \o <<" ken arimashita.", NL, NL>> \o script \o <<NL, NL>>
    ELSE <<>>

OtherSection(otherCount, script) ==
    IF otherCount > 0
    THEN <<"tsuzuite, sonota no wadai wo ">> \o NumText(otherCount)
             \o <<" ken shoukai shimasu.", NL, NL>> \o script \o <<NL, NL>>
    ELSE <<>>

\* the script of the catch block of createPodcastScript
FallbackScript(techCount, otherCount) ==
    <<"konnichiwa, konkai wa ... podcast wo otodoke shimasu.", NL,
      "konshuu wa gijutsukei no wadai ga ">> \o NumText(techCount)
        \o <<" ken, sonota no wadai ga ">> \o NumText(otherCount)
        \o <<" ken arimashita.", NL, "shorichuu ni error ga hassei shita tame ...">>

\* generateStatisticalSummary ends with a text or, were an error to escape
\* it, by raising
SummaryText(text) == [raised |-> FALSE, text |-> text]
NoSummary == SummaryText(<<>>)

SummaryFailurePropagates(techCount, otherCount) == [raised |-> TRUE, text |-> <<>>]

\* the catch block of generateStatisticalSummary: the sentence with the counts
SummaryFallback(techCount, otherCount) ==
    SummaryText(<<NL, NL, "konshuu wa gijutsukei no tweet wo ">> \o NumText(techCount)
                  \o <<" ken okiniiri shi, sore igai no bunya dewa ">> \o NumText(otherCount)
                  \o <<" ken no okiniiri wo shimashita.", NL, NL>>)

\* `\n\n${response.trim()}\n\n`
SummaryFromResponse(response) == SummaryText(<<NL, NL>> \o Trim(response) \o <<NL, NL>>)

AssembleOtherFirst(grouped, tScript, oScript, summary) ==
    OPENING \o OtherSection(CountAll(grouped.other), oScript)
        \o TechSection(CountAll(grouped.tech), tScript) \o summary.text \o CONCLUSION

\* the try block that assembles the script and the catch block behind it
AssembleScript(grouped, tScript, oScript, summary) ==
    LET techCount == CountAll(grouped.tech)
        otherCount == CountAll(grouped.other)
    IN IF summary.raised
       THEN FallbackScript(techCount, otherCount)
       ELSE OPENING \o TechSection(techCount, tScript) \o OtherSection(otherCount, oScript)
                \o summary.text \o CONCLUSION

ScriptIdle ==
    /\ ppc = "idle"
    /\ pGrouped = NoGroups
    /\ pk = 0
    /\ techScript = <<>>
    /\ otherScript = <<>>
    /\ pNarrated = <<>>
    /\ pSummary = NoSummary
    /\ pSummaryCalls = 0
    /\ pScript = <<>>

\* createPodcastScript(groupedContents) is called: counting and sorting
ScriptBegin(grouped) ==
    /\ ppc' = "sections"
    /\ pGrouped' = grouped
    /\ pk' = 0
    /\ techScript' = <<>>
    /\ otherScript' = <<>>
    /\ pNarrated' = <<>>
    /\ pSummary' = NoSummary
    /\ pSummaryCalls' = 0
    /\ pScript' = <<>>

\* the next generateCombinedSection(contents, subCatName) call
NarrateSection ==
    /\ ppc = "sections"
    /\ pk < Len(AllSections(pGrouped))
    /\ npc = "idle"
    /\ LET section == AllSections(pGrouped)[pk + 1]
       IN /\ NarratorBegin(section.contents)
          /\ pNarrated' = Append(pNarrated, [category |-> section.category,
                                             key |-> section.key,
                                             contents |-> section.contents])
    /\ ppc' = "await"
    /\ UNCHANGED <<pGrouped, pk, techScript, otherScript, pSummary, pSummaryCalls, pScript>>
    /\ UNCHANGED retryVars
    /\ UNCHANGED exceptScript

\* generateCombinedSection returned: the section, after postProcessText, is
\* appended to the script of its primary category
SectionNarrated ==
    /\ ppc = "await"
    /\ npc = "done"
    /\ LET section == AllSections(pGrouped)[pk + 1]
           text == section.intro \o postProcessText(nReturn) \o <<NL, NL>>
       IN IF section.category = TECH
          THEN techScript' = techScript \o text /\ UNCHANGED otherScript
          ELSE otherScript' = otherScript \o text /\ UNCHANGED techScript
    /\ pk' = pk + 1
    /\ ppc' = "sections"
    /\ npc' = "idle"
    /\ nContents' = <<>>
    /\ nChunks' = <<>>
    /\ ni' = 0
    /\ nResults' = <<>>
    /\ nCallLog' = <<>>
    /\ nReturn' = <<>>
    /\ UNCHANGED <<pGrouped, pNarrated, pSummary, pSummaryCalls, pScript>>
    /\ UNCHANGED retryVars
    /\ UNCHANGED exceptScript

\* all sections done: generateStatisticalSummary(allTechContents, allOtherContents);
\* without any content it returns "" at once and the script is returned
RequestSummary ==
    /\ ppc = "sections"
    /\ pk >= Len(AllSections(pGrouped))
    /\ IF CountAll(pGrouped.tech) = 0 /\ CountAll(pGrouped.other) = 0
       THEN /\ ppc' = "done"
            /\ pScript' = AssembleScript(pGrouped, techScript, otherScript, NoSummary)
       ELSE /\ ppc' = "summary"
            /\ UNCHANGED pScript
    /\ UNCHANGED <<pGrouped, pk, techScript, otherScript, pNarrated, pSummary, pSummaryCalls>>
    /\ UNCHANGED <<retryVars, narratorVars>>
    /\ UNCHANGED exceptScript

\* the one chat completion request of the summary ended, with a response or
\* with an error: the script is assembled and returned
SummaryEnds(summary) ==
    /\ ppc = "summary"
    /\ pSummary' = summary
    /\ pSummaryCalls' = pSummaryCalls + 1
    /\ pScript' = AssembleScript(pGrouped, techScript, otherScript, summary)
    /\ ppc' = "done"
    /\ UNCHANGED <<pGrouped, pk, techScript, otherScript, pNarrated>>
    /\ UNCHANGED <<retryVars, narratorVars>>
    /\ UNCHANGED exceptScript

\* what the chat completion of the summary may hold as message.content
SummaryResponses == {<<>>, <<SP>>, <<"x", KUTEN, NL>>}

\* the chat completion of the summary answers; an empty answer raises inside
\* the try block
SummaryApiAnswers ==
    \E response \in SummaryResponses :
        SummaryEnds(IF response = <<>>
                    THEN SummaryFallback(CountAll(pGrouped.tech), CountAll(pGrouped.other))
                    ELSE SummaryFromResponse(response))

\* the chat completion of the summary raises
SummaryApiFails ==
    SummaryEnds(SummaryFallback(CountAll(pGrouped.tech), CountAll(pGrouped.other)))

----------------------------------------------------------------------------
(* The script assembler on its own: up to MaxBuckets buckets per category *)

TechKeys == <<"TOOLS", "AI_ML", OTHER_TECH, "FRAMEWORK", "UNLISTED">>
OtherKeys == <<"NEWS", OTHER_GENERAL, "HOBBY", "LIFESTYLE", "UNLISTED">>
\* bucket sizes: a small, a one-chunk and a two-chunk bucket
TechSizes == {1, 3, 6}
OtherSizes == {2, 3}

SizeLists(sizes, n) == UNION {[1..k -> sizes] : k \in 0..n}

RECURSIVE SumOf(_)
SumOf(ns) == IF ns = <<>> THEN 0 ELSE Head(ns) + SumOf(Tail(ns))

\* buckets of the given sizes; item ids count on from firstId
MakeBuckets(sizes, keys, category, firstId) ==
    [k \in 1..Len(sizes) |->
        [key |-> keys[k],
         contents |-> [j \in 1..sizes[k] |->
                          [id |-> firstId + SumOf(SubSeq(sizes, 1, k - 1)) + j - 1,
                           category |-> category, subCategory |-> keys[k]]]]]

GroupedInputs ==
    {[tech |-> MakeBuckets(ts, TechKeys, TECH, 1),
      other |-> MakeBuckets(os, OtherKeys, OTHER_CONTENT, 1 + SumOf(ts))] :
        ts \in SizeLists(TechSizes, MaxBuckets), os \in SizeLists(OtherSizes, MaxBuckets)}

CreatePodcastScript ==
    /\ ppc = "idle"
    /\ \E grouped \in GroupedInputs : ScriptBegin(grouped)
    /\ UNCHANGED <<retryVars, narratorVars>>
    /\ UNCHANGED exceptScript

GroupContents ==
    /\ Group
    /\ UNCHANGED exceptGrouper

----------------------------------------------------------------------------
(* main, from grouping to the script: groupContentsByCategory, then           *)
(* createPodcastScript on its result                                          *)

\* the subCategory values tried here: one of each taxonomy, and none
PipelineSubCategories == {"AI_ML", "NEWS", Absent}

PipelineItemLists(n) ==
    UNION {[1..k -> [category : {TECH, OTHER_CONTENT}, subCategory : PipelineSubCategories]] :
              k \in 0..n}

InitPipelineInput ==
    /\ gpc = "input"
    /\ gContents \in {WithIds(kinds) : kinds \in PipelineItemLists(MaxPipelineItems)}
    /\ gResult = NoGroups

\* const script = await createPodcastScript(groupedContents)
ScriptFromGroups ==
    /\ gpc = "done"
    /\ ppc = "idle"
    /\ ScriptBegin(gResult)
    /\ UNCHANGED <<retryVars, narratorVars>>
    /\ UNCHANGED exceptScript

----------------------------------------------------------------------------
(* mergeAudioFiles, generateSilence (utils/audio-utils.ts) *)

MergeCalls == 1..MaxMergeCalls

\* the silenceDuration values tried: the default and zero
SilenceDurations == {"2.5", "0"}

InputPath(k) == <<"in">> \o NumText(k)
\* the outputFilePath of a call
OutputPath(c) == <<"out">> \o NumText(c)
\* path.join(AUDIO_OUTPUT_DIR, `_silence_${silenceDuration}s.mp3`)
SilencePath(d) == <<"_silence_", d, "s.mp3">>

Exists(path) == \E f \in aFiles : f.path = path
Content(path) == (CHOOSE f \in aFiles : f.path = path).content
WriteFile(fs, path, content) ==
    {f \in fs : f.path # path} \cup {[path |-> path, content |-> content]}

SilenceContent(d) == <<"silence", d>>
\* what a file being written by ffmpeg holds before ffmpeg has ended
PartialContent == <<"partial">>

RECURSIVE InterleaveFrom(_, _, _)
InterleaveFrom(paths, i, silencePath) ==
    IF i > Len(paths) THEN <<>>
    ELSE <<paths[i]>> \o (IF i < Len(paths) THEN <<silencePath>> ELSE <<>>)
             \o InterleaveFrom(paths, i + 1, silencePath)

\* the forEach that builds mergeList: a silence after every file but the last
MergeList(paths, silencePath) == InterleaveFrom(paths, 1, silencePath)

RECURSIVE Concatenated(_)
Concatenated(paths) ==
    IF paths = <<>> THEN <<>> ELSE Content(Head(paths)) \o Concatenated(Tail(paths))

NoArgs == [inputs |-> <<>>, duration |-> "2.5"]

AudioIdle ==
    /\ mpc = [c \in MergeCalls |-> "idle"]
    /\ mArgs = [c \in MergeCalls |-> NoArgs]
    /\ mError = [c \in MergeCalls |-> "none"]
    /\ aFiles = {}
    /\ mLog = <<>>

\* the input files exist before any call
InitAudio ==
    /\ mpc = [c \in MergeCalls |-> "idle"]
    /\ mArgs = [c \in MergeCalls |-> NoArgs]
    /\ mError = [c \in MergeCalls |-> "none"]
    /\ aFiles = {[path |-> InputPath(k), content |-> <<"audio">> \o NumText(k)] :
                    k \in 1..MaxMergeInputs}
    /\ mLog = <<>>

\* !fs.existsSync(silenceFilePath)
SilenceMissing(silencePath) == ~Exists(silencePath)

NoInputOnly(paths) == Len(paths) = 0

\* audioFilePaths.length <= 1
AtMostOneInput(paths) == Len(paths) <= 1

\* ffmpeg is started on mergeList
StartMerge(c, args) ==
    /\ mpc' = [mpc EXCEPT ![c] = "merging"]
    /\ mLog' = Append(mLog, [ev |-> "merge", call |-> c,
                              path |-> OutputPath(c),
                              list |-> MergeList(args.inputs, SilencePath(args.duration))])

\* mergeAudioFiles(audioFilePaths, outputFilePath, silenceDuration) is called
\* and runs to its first await, return or throw
MergeBegin(c, inputs, duration) ==
    /\ mpc[c] = "idle"
    /\ mArgs' = [mArgs EXCEPT ![c] = [inputs |-> inputs, duration |-> duration]]
    /\ IF AtMostOneInput(inputs)
       THEN IF Len(inputs) = 1
            THEN /\ aFiles' = WriteFile(aFiles, OutputPath(c), Content(inputs[1]))
                 /\ mLog' = Append(mLog, [ev |-> "copy", call |-> c,
                                           path |-> OutputPath(c), list |-> inputs])
                 /\ mpc' = [mpc EXCEPT ![c] = "returned"]
                 /\ UNCHANGED mError
            ELSE /\ mpc' = [mpc EXCEPT ![c] = "raised"]
                 /\ mError' = [mError EXCEPT ![c] = "noInput"]
                 /\ UNCHANGED <<aFiles, mLog>>
       ELSE IF SilenceMissing(SilencePath(duration))
            THEN /\ mpc' = [mpc EXCEPT ![c] = "generating"]
                 /\ mLog' = Append(mLog, [ev |-> "silence", call |-> c,
                                           path |-> SilencePath(duration), list |-> <<>>])
                 /\ UNCHANGED <<aFiles, mError>>
            ELSE /\ StartMerge(c, [inputs |-> inputs, duration |-> duration])
                 /\ UNCHANGED <<aFiles, mError>>

\* ffmpeg has opened the silence file it is writing
SilenceFileAppears(c) ==
    /\ mpc[c] = "generating"
    /\ ~Exists(SilencePath(mArgs[c].duration))
    /\ aFiles' = WriteFile(aFiles, SilencePath(mArgs[c].duration), PartialContent)
    /\ UNCHANGED <<mpc, mArgs, mError, mLog>>

\* generateSilence resolves: the silence file is complete, mergeList is built
\* and ffmpeg is started on it
SilenceGenerated(c) ==
    /\ mpc[c] = "generating"
    /\ aFiles' = WriteFile(aFiles, SilencePath(mArgs[c].duration),
                           SilenceContent(mArgs[c].duration))
    /\ StartMerge(c, mArgs[c])
    /\ UNCHANGED <<mArgs, mError>>

\* generateSilence rejects: the catch block logs and rethrows
SilenceFails(c) ==
    /\ mpc[c] = "generating"
    /\ mpc' = [mpc EXCEPT ![c] = "raised"]
    /\ mError' = [mError EXCEPT ![c] = "silence"]
    /\ UNCHANGED <<mArgs, aFiles, mLog>>

\* ffmpeg ends: the output file holds the inputs of mergeList in order
MergeEnds(c) ==
    /\ mpc[c] = "merging"
    /\ \A k \in 1..Len(mArgs[c].inputs) : Exists(mArgs[c].inputs[k])
    /\ aFiles' = WriteFile(aFiles, OutputPath(c),
                           Concatenated(MergeList(mArgs[c].inputs,
                                                  SilencePath(mArgs[c].duration))))
    /\ mpc' = [mpc EXCEPT ![c] = "returned"]
    /\ UNCHANGED <<mArgs, mError, mLog>>

\* ffmpeg reports an error: the promise rejects
MergeErrors(c) ==
    /\ mpc[c] = "merging"
    /\ mpc' = [mpc EXCEPT ![c] = "raised"]
    /\ mError' = [mError EXCEPT ![c] = "ffmpeg"]
    /\ UNCHANGED <<mArgs, aFiles, mLog>>

----------------------------------------------------------------------------
(* mergeAudioFiles on its own: MaxMergeCalls calls, overlapping or not *)

InputLists == {[k \in 1..n |-> InputPath(k)] : n \in 0..MaxMergeInputs}

MergeAudioFiles ==
    /\ \E c \in MergeCalls, inputs \in InputLists, duration \in SilenceDurations :
          MergeBegin(c, inputs, duration)
    /\ UNCHANGED exceptAudio

FfmpegOpensSilenceFile ==
    /\ \E c \in MergeCalls : SilenceFileAppears(c)
    /\ UNCHANGED exceptAudio

GenerateSilenceResolves ==
    /\ \E c \in MergeCalls : SilenceGenerated(c)
    /\ UNCHANGED exceptAudio

GenerateSilenceRejects ==
    /\ \E c \in MergeCalls : SilenceFails(c)
    /\ UNCHANGED exceptAudio

FfmpegEnds ==
    /\ \E c \in MergeCalls : MergeEnds(c)
    /\ UNCHANGED exceptAudio

FfmpegErrors ==
    /\ \E c \in MergeCalls : MergeErrors(c)
    /\ UNCHANGED exceptAudio

----------------------------------------------------------------------------
(* scrapeMultipleUrls (services/scraper) *)

BATCH_SIZE == 5

\* [...new Set(urls)]: the urls without repetition, in order of first occurrence
RECURSIVE UniqueFrom(_, _, _)
UniqueFrom(urls, i, acc) ==
    IF i > Len(urls) THEN acc
    ELSE UniqueFrom(urls, i + 1,
             IF \E k \in 1..Len(acc) : acc[k] = urls[i] THEN acc ELSE Append(acc, urls[i]))

Unique(urls) == UniqueFrom(urls, 1, <<>>)

BatchToTheEnd(urls, i) == (i + 1)..Len(urls)

\* uniqueUrls.slice(i, i + batchSize), as positions in uniqueUrls
BatchAt(urls, i) == {k \in (i + 1)..(i + BATCH_SIZE) : k <= Len(urls)}

ScraperIdle ==
    /\ upc = "idle"
    /\ uArg = <<>>
    /\ uUrls = <<>>
    /\ ui = 0
    /\ uInFlight = {}
    /\ uDone = {}
    /\ uResults = <<>>

\* scrapeMultipleUrls(urls) is called: the urls are deduplicated and the loop
\* starts a scrapeUrl call for every url of the first batch
ScrapeBegin(urls) ==
    /\ upc = "idle"
    /\ uArg' = urls
    /\ uUrls' = Unique(urls)
    /\ ui' = 0
    /\ uDone' = {}
    /\ uResults' = <<>>
    /\ uInFlight' = BatchAt(Unique(urls), 0)
    /\ upc' = IF Unique(urls) = <<>> THEN "done" ELSE "batch"

\* a scrapeUrl call of the batch resolves, with a content or with an error
\* entry (it never rejects); with the last one Promise.all
\* resolves, the results are pushed, i += batchSize, and the next batch is
\* started or the results are returned
ScrapeResolves(k) ==
    /\ upc = "batch"
    /\ k \in uInFlight
    /\ uDone' = uDone \cup {k}
    /\ UNCHANGED <<uArg, uUrls>>
    /\ IF uInFlight = {k}
       THEN /\ uResults' = uResults \o [j \in 1..Cardinality(BatchAt(uUrls, ui)) |->
                                            uUrls[ui + j]]
            /\ ui' = ui + BATCH_SIZE
            /\ uInFlight' = BatchAt(uUrls, ui + BATCH_SIZE)
            /\ upc' = IF ui + BATCH_SIZE < Len(uUrls) THEN "batch" ELSE "done"
       ELSE /\ uInFlight' = uInFlight \ {k}
            /\ UNCHANGED <<upc, ui, uResults>>

----------------------------------------------------------------------------
(* scrapeMultipleUrls on its own: up to MaxUrls distinct urls, one repeated *)

UrlName(k) == <<"http://u">> \o NumText(k)

UrlLists ==
    {[k \in 1..n |-> UrlName(k)] \o repeated :
        n \in 0..MaxUrls, repeated \in {<<>>, <<UrlName(1)>>}}

ScrapeMultipleUrls ==
    /\ \E urls \in UrlLists : ScrapeBegin(urls)
    /\ UNCHANGED exceptScraper

ScrapeUrlResolves ==
    /\ \E k \in uInFlight : ScrapeResolves(k)
    /\ UNCHANGED exceptScraper

----------------------------------------------------------------------------
(* Overlapping runs of main: the output file name and the temporary chunk     *)
(* files of synthesizeSpeechWithElevenLabs                                    *)

Runs == 1..MaxRuns

\* formatDateTimeJP(): the date and time to the minute
FormatDateTimeJP(minute) == <<"2026nen1gatsu1nichi0ji">> \o NumText(minute) \o <<"fun">>

\* `podcast_${formatDateTimeJP().replace(/[\/\s:]/g, "_")}.mp3`
OutputFileName(minute) == <<"podcast_">> \o FormatDateTimeJP(minute) \o <<".mp3">>

RunsIdle ==
    /\ kpc = [r \in Runs |-> "idle"]
    /\ kName = [r \in Runs |-> <<>>]
    /\ kChunks = [r \in Runs |-> 0]
    /\ kWritten = [r \in Runs |-> <<>>]
    /\ clock = 0

\* a run names its output file after the clock and calls textToSpeech on a
\* script of more than MAX_TEXT_LENGTH characters
RunStartsSynthesis(r, chunks) ==
    /\ kpc[r] = "idle"
    /\ kpc' = [kpc EXCEPT ![r] = "synthesis"]
    /\ kName' = [kName EXCEPT ![r] = OutputFileName(clock)]
    /\ kChunks' = [kChunks EXCEPT ![r] = chunks]
    /\ UNCHANGED <<kWritten, clock>>

\* processChunk writes the next temporary chunk file of the run
RunWritesChunk(r) ==
    /\ kpc[r] = "synthesis"
    /\ Len(kWritten[r]) < kChunks[r]
    /\ kWritten' = [kWritten EXCEPT ![r] = Append(@, TempChunkName(Len(@), kName[r]))]
    /\ UNCHANGED <<kpc, kName, kChunks, clock>>

\* all chunks are written: merge, deletion, return
RunEndsSynthesis(r) ==
    /\ kpc[r] = "synthesis"
    /\ Len(kWritten[r]) = kChunks[r]
    /\ kpc' = [kpc EXCEPT ![r] = "done"]
    /\ UNCHANGED <<kName, kChunks, kWritten, clock>>

MinutePasses ==
    /\ clock < MaxMinute
    /\ clock' = clock + 1
    /\ UNCHANGED <<kpc, kName, kChunks, kWritten>>

StartSynthesis ==
    /\ \E r \in Runs, chunks \in 2..MaxRunChunks : RunStartsSynthesis(r, chunks)
    /\ UNCHANGED exceptRuns

WriteChunk ==
    /\ \E r \in Runs : RunWritesChunk(r)
    /\ UNCHANGED exceptRuns

EndSynthesis ==
    /\ \E r \in Runs : RunEndsSynthesis(r)
    /\ UNCHANGED exceptRuns

Tick ==
    /\ MinutePasses
    /\ UNCHANGED exceptRuns

----------------------------------------------------------------------------
(* main (src/index.ts): one run, from the fetch to the saved episode.  Each  *)
(* await of main is a step; the outcome of the awaited call is the input.     *)

\* a TweetData without id: `undefined`, which filter(Boolean) drops
NoId == 0

\* the TweetData fetchRecentTweets builds from a row: tweetDate, account,
\* contentLink, tweetLink and content, and no id
TweetFromRow(k) == [tweetLink |-> k, id |-> NoId]

MainSubCategories == {"AI_ML", Absent}

\* the default of classifyContent and of classifySubCategory when the call failed
DefaultCategory == OTHER_CONTENT
DefaultSubCategoryOfResponse(category) == Absent
DefaultSubCategory(category) == IF category = TECH THEN OTHER_TECH ELSE OTHER_GENERAL

\* the retries fetchRecentTweets hands to retryAsync
FETCH_RETRIES == 3

NoClassification == [category |-> Absent, subCategory |-> Absent]

MainIdle ==
    /\ wpc = "idle"
    /\ wTweets = <<>>
    /\ wi = 0
    /\ wCur = NoClassification
    /\ wProcessed = <<>>
    /\ wSkipped = <<>>
    /\ wMarked = <<>>
    /\ wNarrated = <<>>
    /\ wArtifact = FALSE
    /\ wEpisodes = <<>>
    /\ wFailed = {}
    /\ wClassOk = FALSE
    /\ wCause = "none"
    /\ wCalled = {}
    /\ wExit = "none"
    /\ wDisconnects = 0

\* main is called and awaits fetchRecentTweets, which hands the spreadsheet
\* request to retryAsync(..., 3, 1000, ...)
MainBegin ==
    /\ wpc = "idle"
    /\ wpc' = "fetch"
    /\ RetryBegin(FETCH_RETRIES)
    /\ UNCHANGED <<wTweets, wi, wCur, wProcessed, wMarked, wNarrated, wArtifact, wEpisodes,
                   wFailed, wClassOk, wCause>>
    /\ UNCHANGED <<wSkipped, wCalled, wExit, wDisconnects>>

\* the spreadsheet request raises
SheetsRequestFails ==
    /\ wpc = "fetch"
    /\ RetrySettle(Failure("ApiError"))
    /\ UNCHANGED mainVars

\* the spreadsheet request answers
SheetsRequestAnswers ==
    /\ wpc = "fetch"
    /\ RetrySettle(Success(<<>>))
    /\ UNCHANGED mainVars

SheetsDelayElapses ==
    /\ wpc = "fetch"
    /\ RetryTimer
    /\ UNCHANGED mainVars

MainExitsDisconnectingOnReturn(kind) ==
    /\ wpc' = "disconnect"
    /\ wExit' = kind
    /\ wDisconnects' = IF kind = "return" THEN wDisconnects + 1 ELSE wDisconnects

\* main leaves its try block, by a return or by the throw of its catch block:
\* the finally block calls prisma.$disconnect() and awaits it
MainExits(kind) ==
    /\ wpc' = "disconnect"
    /\ wExit' = kind
    /\ wDisconnects' = wDisconnects + 1

\* prisma.$disconnect() resolves: main returns, or raises the error its catch
\* block threw
DisconnectEnds ==
    /\ wpc = "disconnect"
    /\ wpc' = IF wExit = "return" THEN "returned" ELSE "raised"
    /\ UNCHANGED <<wTweets, wi, wCur, wProcessed, wMarked, wNarrated, wArtifact, wEpisodes,
                   wFailed, wClassOk, wCause>>
    /\ UNCHANGED <<wSkipped, wCalled, wExit, wDisconnects>>

FetchReturnsIntoTheLoop(n) ==
    /\ wpc = "fetch"
    /\ rpc = "returned"
    /\ RetryReset
    /\ wTweets' = [k \in 1..n |-> TweetFromRow(k)]
    /\ wCalled' = wCalled \cup {"fetchRecentTweets"}
    /\ IF n = 0
       THEN wpc' = "script" /\ wi' = wi
       ELSE wpc' = "scrape" /\ wi' = 1
    /\ UNCHANGED <<wCur, wProcessed, wMarked, wNarrated, wArtifact, wEpisodes, wFailed, wCause>>
    /\ UNCHANGED <<wClassOk, wSkipped, wExit, wDisconnects>>

\* fetchRecentTweets returns n tweets; main returns at once when there is none
FetchReturns(n) ==
    /\ wpc = "fetch"
    /\ rpc = "returned"
    /\ RetryReset
    /\ wTweets' = [k \in 1..n |-> TweetFromRow(k)]
    /\ wCalled' = wCalled \cup {"fetchRecentTweets"}
    /\ IF n = 0
       THEN MainExits("return") /\ wi' = wi
       ELSE wpc' = "scrape" /\ wi' = 1 /\ UNCHANGED <<wExit, wDisconnects>>
    /\ UNCHANGED <<wCur, wProcessed, wMarked, wNarrated, wArtifact, wEpisodes, wFailed, wCause>>
    /\ UNCHANGED <<wClassOk, wSkipped>>

\* the error main's catch block logs and raises again
MainRaises(kind) ==
    /\ MainExits("raise")
    /\ wCause' = kind
    /\ wFailed' = wFailed \cup {kind}

FetchRaisesAndStartsOver ==
    /\ wpc = "fetch"
    /\ rpc = "raised"
    /\ RetryBegin(FETCH_RETRIES)
    /\ wFailed' = wFailed \cup {"fetch"}
    /\ wCalled' = wCalled \cup {"fetchRecentTweets"}
    /\ UNCHANGED <<wpc, wTweets, wi, wCur, wProcessed, wMarked, wNarrated, wArtifact, wEpisodes,
                   wClassOk, wCause>>
    /\ UNCHANGED <<wSkipped, wExit, wDisconnects>>

\* the spreadsheet call has failed after its retries: fetchRecentTweets raises
\* the error again, and so does main
FetchRaises ==
    /\ wpc = "fetch"
    /\ rpc = "raised"
    /\ RetryReset
    /\ MainRaises("fetch")
    /\ wCalled' = wCalled \cup {"fetchRecentTweets"}
    /\ UNCHANGED <<wTweets, wi, wCur, wProcessed, wMarked, wNarrated, wArtifact, wEpisodes, wClassOk>>
    /\ UNCHANGED wSkipped

\* the loop goes to the next tweet, or to createPodcastScript after the last
NextTweet ==
    /\ wCur' = NoClassification
    /\ IF wi < Len(wTweets)
       THEN wpc' = "scrape" /\ wi' = wi + 1
       ELSE wpc' = "script" /\ wi' = wi

\* the scraping step of the loop: the tweet has no contentLink and scrapeUrl
\* is not called ("nolink"), or scrapeUrl resolves, with the page ("page") or,
\* after its retries, with an error entry ("error")
ScrapeEnds(outcome) ==
    /\ wpc = "scrape"
    /\ wpc' = "classify"
    /\ wFailed' = IF outcome = "error" THEN wFailed \cup {"scraping"} ELSE wFailed
    /\ wCalled' = IF outcome = "nolink" THEN wCalled ELSE wCalled \cup {"scrapeUrl"}
    /\ UNCHANGED <<wTweets, wi, wCur, wProcessed, wMarked, wNarrated, wArtifact, wEpisodes,
                   wCause>>
    /\ UNCHANGED <<wClassOk, wSkipped, wExit, wDisconnects>>

\* classifyContent resolves, with the category of the response or, after its
\* retries, with the default category
ClassifyEnds(exhausted, category) ==
    /\ wpc = "classify"
    /\ wpc' = "subclassify"
    /\ wCur' = [wCur EXCEPT !.category = IF exhausted THEN DefaultCategory ELSE category]
    /\ wFailed' = IF exhausted THEN wFailed \cup {"classification"} ELSE wFailed
    /\ wClassOk' = (wClassOk \/ ~exhausted)
    /\ wCalled' = wCalled \cup {"classifyContent"}
    /\ UNCHANGED <<wTweets, wi, wProcessed, wMarked, wNarrated, wArtifact, wEpisodes, wCause>>
    /\ UNCHANGED <<wSkipped, wExit, wDisconnects>>

\* classifySubCategory resolves, with result.subCategory of the response or,
\* after its retries, with the default subcategory of the category
SubClassifyEnds(exhausted, subCategory) ==
    /\ wpc = "subclassify"
    /\ wpc' = "saveTweet"
    /\ wCur' = [wCur EXCEPT !.subCategory =
                   IF exhausted THEN DefaultSubCategory(wCur.category) ELSE subCategory]
    /\ wFailed' = IF exhausted THEN wFailed \cup {"classification"} ELSE wFailed
    /\ wClassOk' = (wClassOk \/ ~exhausted)
    /\ wCalled' = wCalled \cup {"classifySubCategory"}
    /\ UNCHANGED <<wTweets, wi, wProcessed, wMarked, wNarrated, wArtifact, wEpisodes, wCause>>
    /\ UNCHANGED <<wSkipped, wExit, wDisconnects>>

SaveTweetEndsLoop(rejected) ==
    /\ wpc = "saveTweet"
    /\ wCalled' = wCalled \cup {"saveTweet"}
    /\ IF rejected
       THEN /\ wpc' = "script"
            /\ wCur' = NoClassification
            /\ wFailed' = wFailed \cup {"saveTweet"}
            /\ wSkipped' = Append(wSkipped, wTweets[wi].tweetLink)
            /\ UNCHANGED wi
       ELSE /\ wpc' = "summarize"
            /\ UNCHANGED <<wi, wCur, wFailed, wSkipped>>
    /\ UNCHANGED <<wTweets, wProcessed, wMarked, wNarrated, wArtifact, wEpisodes, wCause>>
    /\ UNCHANGED <<wClassOk, wExit, wDisconnects>>

\* saveTweet resolves, or rejects: the catch block of the loop logs the error
\* with the tweet's link and the loop goes to the next tweet
SaveTweetEnds(rejected) ==
    /\ wpc = "saveTweet"
    /\ wCalled' = wCalled \cup {"saveTweet"}
    /\ IF rejected
       THEN /\ NextTweet
            /\ wFailed' = wFailed \cup {"saveTweet"}
            /\ wSkipped' = Append(wSkipped, wTweets[wi].tweetLink)
       ELSE /\ wpc' = "summarize"
            /\ UNCHANGED <<wi, wCur, wFailed, wSkipped>>
    /\ UNCHANGED <<wTweets, wProcessed, wMarked, wNarrated, wArtifact, wEpisodes, wCause>>
    /\ UNCHANGED <<wClassOk, wExit, wDisconnects>>

\* summarizeTweet resolves, with the summary or, after the retries, with the
\* head of the content; the item is pushed and, when the tweet has an id,
\* marked as processed
SummarizeEnds(exhausted) ==
    /\ wpc = "summarize"
    /\ wProcessed' = Append(wProcessed,
          [id |-> wTweets[wi].tweetLink, original |-> wTweets[wi],
           category |-> wCur.category, subCategory |-> wCur.subCategory])
    /\ wMarked' = IF wTweets[wi].id # NoId THEN Append(wMarked, wTweets[wi].id) ELSE wMarked
    /\ NextTweet
    /\ wFailed' = IF exhausted THEN wFailed \cup {"summarization"} ELSE wFailed
    /\ wCalled' = wCalled \cup {"summarizeTweet"}
    /\ UNCHANGED <<wTweets, wNarrated, wArtifact, wEpisodes, wCause>>
    /\ UNCHANGED <<wClassOk, wSkipped, wExit, wDisconnects>>

\* groupContentsByCategory and createPodcastScript: the items of the groups
\* are handed to the narration; a narration or a trend summary that failed
\* after its retries is replaced inside createPodcastScript, which returns a
\* script in every case
ScriptEnds(narrationExhausted, trendExhausted) ==
    /\ wpc = "script"
    /\ wpc' = "synthesis"
    /\ LET grouped == groupContentsByCategory(wProcessed)
       IN wNarrated' = FlattenBuckets(grouped.tech) \o FlattenBuckets(grouped.other)
    /\ wFailed' = wFailed \cup (IF narrationExhausted THEN {"narration"} ELSE {})
                          \cup (IF trendExhausted THEN {"trend"} ELSE {})
    /\ wCalled' = wCalled \cup {"createPodcastScript"}
    /\ UNCHANGED <<wTweets, wi, wCur, wProcessed, wMarked, wArtifact, wEpisodes, wCause>>
    /\ UNCHANGED <<wClassOk, wSkipped, wExit, wDisconnects>>

\* textToSpeech resolves with the audio file
SynthesisReturns ==
    /\ wpc = "synthesis"
    /\ wpc' = "saveEpisode"
    /\ wArtifact' = TRUE
    /\ wCalled' = wCalled \cup {"textToSpeech"}
    /\ UNCHANGED <<wTweets, wi, wCur, wProcessed, wMarked, wNarrated, wEpisodes, wFailed,
                   wCause>>
    /\ UNCHANGED <<wClassOk, wSkipped, wExit, wDisconnects>>

SynthesisRaisesUnnoticed(kind) ==
    /\ wpc = "synthesis"
    /\ wpc' = "saveEpisode"
    /\ wCause' = kind
    /\ wFailed' = wFailed \cup {kind}
    /\ wCalled' = wCalled \cup {"textToSpeech"}
    /\ UNCHANGED <<wTweets, wi, wCur, wProcessed, wMarked, wNarrated, wArtifact, wEpisodes, wClassOk>>
    /\ UNCHANGED <<wSkipped, wExit, wDisconnects>>

\* textToSpeech rejects, a chunk synthesis or the concatenation having
\* failed: main raises
SynthesisRaises(kind) ==
    /\ wpc = "synthesis"
    /\ MainRaises(kind)
    /\ wCalled' = wCalled \cup {"textToSpeech"}
    /\ UNCHANGED <<wTweets, wi, wCur, wProcessed, wMarked, wNarrated, wArtifact, wEpisodes, wClassOk>>
    /\ UNCHANGED wSkipped

\* processedContents.map((content) => content.original.id).filter(Boolean)
TweetIds(contents) ==
    SelectSeq([k \in 1..Len(contents) |-> contents[k].original.id], LAMBDA id : id # NoId)

\* savePodcastEpisode resolves and main returns, or rejects and main raises
SaveEpisodeEnds(rejected) ==
    /\ wpc = "saveEpisode"
    /\ wCalled' = wCalled \cup {"savePodcastEpisode"}
    /\ IF rejected
       THEN MainRaises("saveEpisode") /\ UNCHANGED <<wEpisodes, wClassOk>>
       ELSE /\ MainExits("return")
            /\ wEpisodes' = Append(wEpisodes, [tweets |-> TweetIds(wProcessed)])
            /\ UNCHANGED <<wFailed, wClassOk, wCause>>
    /\ UNCHANGED <<wTweets, wi, wCur, wProcessed, wMarked, wNarrated, wArtifact>>
    /\ UNCHANGED wSkipped

\* saveLogEntry rejects inside logMessage, which catches the error
LogSaveRejected ==
    /\ wpc \notin {"idle", "returned", "raised"}
    /\ "saveLog" \notin wFailed
    /\ wFailed' = wFailed \cup {"saveLog"}
    /\ UNCHANGED <<wpc, wTweets, wi, wCur, wProcessed, wMarked, wNarrated, wArtifact,
                   wEpisodes, wClassOk, wCause>>
    /\ UNCHANGED <<wSkipped, wCalled, wExit, wDisconnects>>

Main ==
    /\ MainBegin
    /\ UNCHANGED exceptMainAndRetry

SheetsApiFails ==
    /\ SheetsRequestFails
    /\ UNCHANGED exceptMainAndRetry

SheetsApiAnswers ==
    /\ SheetsRequestAnswers
    /\ UNCHANGED exceptMainAndRetry

SheetsApiDelayElapses ==
    /\ SheetsDelayElapses
    /\ UNCHANGED exceptMainAndRetry

FetchRecentTweetsReturns ==
    /\ \E n \in 0..MaxTweets : FetchReturns(n)
    /\ UNCHANGED exceptMainAndRetry

FetchRecentTweetsRaises ==
    /\ FetchRaises
    /\ UNCHANGED exceptMainAndRetry

DisconnectResolves ==
    /\ DisconnectEnds
    /\ UNCHANGED exceptMain

ScrapeUrlEnds ==
    /\ \E outcome \in {"nolink", "page", "error"} : ScrapeEnds(outcome)
    /\ UNCHANGED exceptMain

ClassifyContentEnds ==
    /\ \E exhausted \in BOOLEAN, category \in {TECH, OTHER_CONTENT} :
          ClassifyEnds(exhausted, category)
    /\ UNCHANGED exceptMain

ClassifySubCategoryEnds ==
    /\ \E exhausted \in BOOLEAN, subCategory \in MainSubCategories :
          SubClassifyEnds(exhausted, subCategory)
    /\ UNCHANGED exceptMain

SaveTweetSettles ==
    /\ \E rejected \in BOOLEAN : SaveTweetEnds(rejected)
    /\ UNCHANGED exceptMain

SummarizeTweetEnds ==
    /\ \E exhausted \in BOOLEAN : SummarizeEnds(exhausted)
    /\ UNCHANGED exceptMain

CreatePodcastScriptEnds ==
    /\ \E narrationExhausted, trendExhausted \in BOOLEAN :
          ScriptEnds(narrationExhausted, trendExhausted)
    /\ UNCHANGED exceptMain

TextToSpeechReturns ==
    /\ SynthesisReturns
    /\ UNCHANGED exceptMain

TextToSpeechRaises ==
    /\ \E kind \in {"synthesis", "concatenation"} : SynthesisRaises(kind)
    /\ UNCHANGED exceptMain

SavePodcastEpisodeSettles ==
    /\ \E rejected \in BOOLEAN : SaveEpisodeEnds(rejected)
    /\ UNCHANGED exceptMain

SaveLogEntryRejects ==
    /\ LogSaveRejected
    /\ UNCHANGED exceptMain

----------------------------------------------------------------------------
(* summarizeContent (services/summarizer) *)

\* the retries summarizeContent hands to retryAsync
SUMMARY_RETRIES == 2
\* the length of the prefix the fallback keeps
FALLBACK_PREFIX == 200
\* the summary of an empty content
NO_CONTENT == <<"content ga arimasen", KUTEN>>
\* the suffix of a truncated fallback
FAILED_MARKER == <<".", ".", ".", SP, "(youyaku seisei ni shippai shimashita)">>

\* `!content || content.trim().length === 0`
IsBlankContent(content) == Len(content) = 0 \/ Len(Trim(content)) = 0

FallbackSummaryMarked(content) ==
    SubSeq(content, 1, Min(FALLBACK_PREFIX, Len(content))) \o FAILED_MARKER

\* the catch block: the head of the content and the marker when the content
\* is longer than the prefix, the content itself otherwise
FallbackSummary(content) ==
    IF Len(content) > FALLBACK_PREFIX
    THEN SubSeq(content, 1, FALLBACK_PREFIX) \o FAILED_MARKER
    ELSE content

SummarizerIdle ==
    /\ zpc = "idle"
    /\ zContent = <<>>
    /\ zReturn = <<>>

\* summarizeContent(content, category) is called: an empty content is
\* answered at once, any other is handed to retryAsync(..., 2, 1000, ...)
SummarizeBegin(content) ==
    /\ zpc = "idle"
    /\ rpc = "idle"
    /\ zContent' = content
    /\ IF IsBlankContent(content)
       THEN /\ zpc' = "returned"
            /\ zReturn' = NO_CONTENT
            /\ UNCHANGED retryVars
       ELSE /\ zpc' = "await"
            /\ zReturn' = zReturn
            /\ RetryBegin(SUMMARY_RETRIES)

\* retryAsync returned: summarizeContent returns its value
SummaryReturned ==
    /\ zpc = "await"
    /\ rpc = "returned"
    /\ zpc' = "returned"
    /\ zReturn' = rResult.val
    /\ UNCHANGED zContent
    /\ UNCHANGED retryVars

\* retryAsync raised: the catch block returns the fallback summary
SummaryRaised ==
    /\ zpc = "await"
    /\ rpc = "raised"
    /\ zpc' = "returned"
    /\ zReturn' = FallbackSummary(zContent)
    /\ UNCHANGED zContent
    /\ UNCHANGED retryVars

\* a content of n characters
ContentOfLength(n) == [i \in 1..n |-> IF i % 2 = 1 THEN "a" ELSE "b"]

SummarizerContents ==
    {ContentOfLength(n) : n \in (0..2) \cup ((FALLBACK_PREFIX - 1)..(FALLBACK_PREFIX + MaxOverflow))}
        \cup {<<SP>>, <<SP, NL>>}

ContentSummaryResponses == {<<>>, <<"s">>, <<SP, "s", "t", NL>>}

SummarizeContent ==
    /\ \E content \in SummarizerContents : SummarizeBegin(content)
    /\ UNCHANGED exceptSummarizer

\* the chat completion request raises
ContentSummaryApiFails ==
    /\ zpc = "await"
    /\ RetrySettle(Failure("ApiError"))
    /\ UNCHANGED summarizerVars
    /\ UNCHANGED exceptSummarizer

\* the chat completion answers: `if (!response) throw ...; return response.trim()`
ContentSummaryApiAnswers ==
    /\ zpc = "await"
    /\ \E response \in ContentSummaryResponses :
          IF response = <<>>
          THEN RetrySettle(Failure("EmptyResponse"))
          ELSE RetrySettle(Success(Trim(response)))
    /\ UNCHANGED summarizerVars
    /\ UNCHANGED exceptSummarizer

ContentSummaryDelayElapses ==
    /\ zpc = "await"
    /\ RetryTimer
    /\ UNCHANGED summarizerVars
    /\ UNCHANGED exceptSummarizer

ContentSummarized ==
    /\ SummaryReturned
    /\ UNCHANGED exceptSummarizer

ContentSummaryFailed ==
    /\ SummaryRaised
    /\ UNCHANGED exceptSummarizer

----------------------------------------------------------------------------
(* The narrator on its own: one bucket of 1 to MaxItems items *)

Narrate ==
    /\ npc = "idle"
    /\ \E k \in 1..MaxItems : NarratorBegin([i \in 1..k |-> i])
    /\ UNCHANGED retryVars
    /\ UNCHANGED exceptNarrator

----------------------------------------------------------------------------
(* retryAsync on its own, around an arbitrary operation *)

RetryValues == {<<"v", "1">>, <<"v", "2">>}
RetryErrors == {"EmptyResponse", "NetworkError"}

RetryCall ==
    /\ rpc = "idle"
    /\ \E n \in 0..MaxRetries : RetryBegin(n)
    /\ UNCHANGED exceptRetry

FnReturns ==
    /\ \E v \in RetryValues : RetrySettle(Success(v))
    /\ UNCHANGED exceptRetry

FnRaises ==
    /\ \E e \in RetryErrors : RetrySettle(Failure(e))
    /\ UNCHANGED exceptRetry

DelayElapses ==
    /\ RetryTimer
    /\ UNCHANGED exceptRetry

SplitText ==
    /\ Split
    /\ UNCHANGED exceptChunker

----------------------------------------------------------------------------
(* Specifications *)

InitRetry == RetryIdle /\ ChunkerIdle /\ NarratorIdle /\ SynthIdle /\ GrouperIdle /\ ScriptIdle /\ AudioIdle
        /\ ScraperIdle /\ RunsIdle /\ MainIdle /\ SummarizerIdle
NextRetry == RetryCall \/ FnReturns \/ FnRaises \/ DelayElapses
SpecRetry == InitRetry /\ [][NextRetry]_vars

InitChunkerSpec == InitChunker /\ RetryIdle /\ NarratorIdle /\ SynthIdle /\ GrouperIdle /\ ScriptIdle /\ AudioIdle
        /\ ScraperIdle /\ RunsIdle /\ MainIdle /\ SummarizerIdle
NextChunker == SplitText
SpecChunker == InitChunkerSpec /\ [][NextChunker]_vars

InitNarrator == NarratorIdle /\ RetryIdle /\ ChunkerIdle /\ SynthIdle /\ GrouperIdle /\ ScriptIdle /\ AudioIdle
        /\ ScraperIdle /\ RunsIdle /\ MainIdle /\ SummarizerIdle
NextNarrator ==
    \/ Narrate
    \/ ProcessContentChunk
    \/ NarrationApiFails
    \/ NarrationApiAnswers
    \/ NarrationDelayElapses
    \/ ChunkNarrated
    \/ ChunkFailed
    \/ NarratorReturn
SpecNarrator == InitNarrator /\ [][NextNarrator]_vars

\* the synthesis driver under each character budget up to MaxSynthBudget
InitSynth ==
    /\ SynthIdle /\ RetryIdle /\ NarratorIdle /\ GrouperIdle /\ ScriptIdle /\ AudioIdle
        /\ ScraperIdle /\ RunsIdle /\ MainIdle /\ SummarizerIdle
    /\ cText = <<>> /\ cChunks = <<>> /\ cpc = "idle"
    /\ cMax \in 1..MaxSynthBudget
NextSynth ==
    \/ Synthesize
    \/ ProcessChunk
    \/ SynthesisApiFails
    \/ SynthesisApiAnswers
    \/ SynthesisDelayElapses
    \/ ChunkSynthesized
    \/ ChunkSynthesisFailed
    \/ DirectSynthesized
    \/ DirectSynthesisFailed
    \/ MergeSucceeds
    \/ MergeFails
SpecSynth == InitSynth /\ [][NextSynth]_vars

InitGrouperSpec ==
    InitGrouper /\ RetryIdle /\ ChunkerIdle /\ NarratorIdle /\ SynthIdle /\ ScriptIdle /\ AudioIdle
        /\ ScraperIdle /\ RunsIdle /\ MainIdle /\ SummarizerIdle
NextGrouper == GroupContents
SpecGrouper == InitGrouperSpec /\ [][NextGrouper]_vars

InitScript ==
    ScriptIdle /\ RetryIdle /\ ChunkerIdle /\ NarratorIdle /\ SynthIdle /\ GrouperIdle /\ AudioIdle
        /\ ScraperIdle /\ RunsIdle /\ MainIdle /\ SummarizerIdle
NextScript ==
    \/ CreatePodcastScript
    \/ NarrateSection
    \/ ProcessContentChunk
    \/ NarrationApiFails
    \/ NarrationApiAnswers
    \/ NarrationDelayElapses
    \/ ChunkNarrated
    \/ ChunkFailed
    \/ NarratorReturn
    \/ SectionNarrated
    \/ RequestSummary
    \/ SummaryApiAnswers
    \/ SummaryApiFails
SpecScript == InitScript /\ [][NextScript]_vars

InitPipeline ==
    InitPipelineInput /\ ScriptIdle /\ RetryIdle /\ ChunkerIdle /\ NarratorIdle /\ SynthIdle /\ AudioIdle
        /\ ScraperIdle /\ RunsIdle /\ MainIdle /\ SummarizerIdle
NextPipeline ==
    \/ GroupContents
    \/ ScriptFromGroups
    \/ NarrateSection
    \/ ProcessContentChunk
    \/ NarrationApiFails
    \/ NarrationApiAnswers
    \/ NarrationDelayElapses
    \/ ChunkNarrated
    \/ ChunkFailed
    \/ NarratorReturn
    \/ SectionNarrated
    \/ RequestSummary
    \/ SummaryApiAnswers
    \/ SummaryApiFails
SpecPipeline == InitPipeline /\ [][NextPipeline]_vars

InitAudioSpec ==
    /\ InitAudio
    /\ RetryIdle /\ ChunkerIdle /\ NarratorIdle /\ SynthIdle /\ GrouperIdle /\ ScriptIdle
    /\ ScraperIdle /\ RunsIdle /\ MainIdle /\ SummarizerIdle
NextAudio ==
    \/ MergeAudioFiles
    \/ FfmpegOpensSilenceFile
    \/ GenerateSilenceResolves
    \/ GenerateSilenceRejects
    \/ FfmpegEnds
    \/ FfmpegErrors
SpecAudio == InitAudioSpec /\ [][NextAudio]_vars

InitScraper ==
    /\ ScraperIdle
    /\ RetryIdle /\ ChunkerIdle /\ NarratorIdle /\ SynthIdle /\ GrouperIdle /\ ScriptIdle
    /\ AudioIdle /\ RunsIdle /\ MainIdle /\ SummarizerIdle
NextScraper ==
    \/ ScrapeMultipleUrls
    \/ ScrapeUrlResolves
SpecScraper == InitScraper /\ [][NextScraper]_vars

InitRuns ==
    /\ RunsIdle /\ MainIdle /\ SummarizerIdle
    /\ RetryIdle /\ ChunkerIdle /\ NarratorIdle /\ SynthIdle /\ GrouperIdle /\ ScriptIdle
    /\ AudioIdle /\ ScraperIdle /\ MainIdle /\ SummarizerIdle
NextRuns ==
    \/ StartSynthesis
    \/ WriteChunk
    \/ EndSynthesis
    \/ Tick
SpecRuns == InitRuns /\ [][NextRuns]_vars

InitMain ==
    /\ MainIdle /\ SummarizerIdle
    /\ RetryIdle /\ ChunkerIdle /\ NarratorIdle /\ SynthIdle /\ GrouperIdle /\ ScriptIdle
    /\ AudioIdle /\ ScraperIdle /\ RunsIdle /\ SummarizerIdle
NextMain ==
    \/ Main
    \/ SheetsApiFails
    \/ SheetsApiAnswers
    \/ SheetsApiDelayElapses
    \/ FetchRecentTweetsReturns
    \/ FetchRecentTweetsRaises
    \/ ScrapeUrlEnds
    \/ ClassifyContentEnds
    \/ ClassifySubCategoryEnds
    \/ SaveTweetSettles
    \/ SummarizeTweetEnds
    \/ CreatePodcastScriptEnds
    \/ TextToSpeechReturns
    \/ TextToSpeechRaises
    \/ SavePodcastEpisodeSettles
    \/ SaveLogEntryRejects
    \/ DisconnectResolves
SpecMain == InitMain /\ [][NextMain]_vars

\* every step of a run but its start and the failure of a log entry: an
\* external call that main, or the retryAsync call of the fetch, awaits has
\* returned or failed, or a delay timer has fired
MainProgress ==
    \/ SheetsApiFails
    \/ SheetsApiAnswers
    \/ SheetsApiDelayElapses
    \/ FetchRecentTweetsReturns
    \/ FetchRecentTweetsRaises
    \/ ScrapeUrlEnds
    \/ ClassifyContentEnds
    \/ ClassifySubCategoryEnds
    \/ SaveTweetSettles
    \/ SummarizeTweetEnds
    \/ CreatePodcastScriptEnds
    \/ TextToSpeechReturns
    \/ TextToSpeechRaises
    \/ SavePodcastEpisodeSettles
    \/ DisconnectResolves

\* a run of main in which every awaited call eventually returns or fails
SpecMainFair == SpecMain /\ WF_vars(MainProgress)

InitSummarizer ==
    /\ SummarizerIdle
    /\ RetryIdle /\ ChunkerIdle /\ NarratorIdle /\ SynthIdle /\ GrouperIdle /\ ScriptIdle
    /\ AudioIdle /\ ScraperIdle /\ RunsIdle /\ MainIdle
NextSummarizer ==
    \/ SummarizeContent
    \/ ContentSummaryApiFails
    \/ ContentSummaryApiAnswers
    \/ ContentSummaryDelayElapses
    \/ ContentSummarized
    \/ ContentSummaryFailed
SpecSummarizer == InitSummarizer /\ [][NextSummarizer]_vars

----------------------------------------------------------------------------
(* Claims about splitTextIntoChunks *)

ChunkLengths == {Len(cChunks[i]) : i \in 1..Len(cChunks)}

\* the split drops characters only where the text has a paragraph separator
\* (two or more newlines) or a sentence separator (whitespace after . ! ?)
HasSeparator(s) ==
    \E i \in 2..Len(s) :
        \/ s[i - 1] = NL /\ s[i] = NL
        \/ s[i - 1] \in SentenceEnd /\ s[i] \in Whitespace

\* C7 as stated: for every text and every budget, every chunk returned has
\* between 1 and cMax characters.
C7_EveryChunkWithinBudget ==
    cpc = "done" => \A n \in ChunkLengths : 1 <= n /\ n <= cMax

\* C7 amended: for every non-empty text and every budget, every chunk returned
\* has between 1 and cMax characters.
C7_NonEmptyTextChunksWithinBudget ==
    (cpc = "done" /\ cText # <<>>) => \A n \in ChunkLengths : 1 <= n /\ n <= cMax

\* C7 witness: a text was split at a paragraph separator and its long
\* paragraph cut at the budget.
C7_Witness ==
    /\ cpc = "done"
    /\ cMax = 2
    /\ cText = <<"a", NL, NL, "a", "a", "a">>
    /\ cChunks = <<<<"a">>, <<"a", "a">>, <<"a">>>>

C9_Boundary ==
    cpc = "done" =>
        /\ (Len(cText) = cMax => cChunks = <<cText>>)
        /\ (Len(cText) = cMax + 1 => Len(cChunks) >= 2)

\* C9 amended: a text of exactly cMax characters comes back as [s]; a text of
\* cMax + 1 characters that holds no paragraph or sentence separator comes
\* back as two chunks or more.
C9_BoundaryNoSeparator ==
    cpc = "done" =>
        /\ (Len(cText) = cMax => cChunks = <<cText>>)
        /\ ((Len(cText) = cMax + 1 /\ ~HasSeparator(cText)) => Len(cChunks) >= 2)

\* C9 witness: a text of cMax + 1 characters without separator was cut in two.
C9_Witness ==
    /\ cpc = "done"
    /\ Len(cText) = cMax + 1
    /\ ~HasSeparator(cText)
    /\ Len(cChunks) = 2

----------------------------------------------------------------------------
(* Claims about retryAsync *)

AllFailed == \A i \in 1..Calls : ~FnEvents[i].ok

\* C5: fn is invoked at most rN + 1 times; every invocation but the last one
\* failed, so fn is never invoked again after a success; the value returned is
\* the value of that first successful invocation.
C5_BoundedCallsFirstSuccess ==
    /\ Calls <= rN + 1
    /\ \A i \in 1..(Calls - 1) : ~FnEvents[i].ok
    /\ rpc = "returned" =>
          /\ FnEvents[Calls].ok
          /\ rResult = [kind |-> "value", val |-> FnEvents[Calls].val, at |-> Calls]

\* C5 witness: two failures, then the third invocation succeeds and its value
\* is returned with one retry left unused.
C5_Witness ==
    /\ npc = "idle"
    /\ rpc = "returned"
    /\ rN = 3
    /\ Calls = 3
    /\ rResult.val = <<"v", "2">>

\* C6: retryAsync raises only after rN + 1 failed invocations, and then it
\* raises the error of the last invocation; once all rN + 1 invocations have
\* failed it has raised: it returned no value and is not waiting.
C6_RaisesLastFailure ==
    /\ rpc = "raised" =>
          /\ Calls = rN + 1
          /\ AllFailed
          /\ rResult = [kind |-> "error", val |-> FnEvents[Calls].val, at |-> Calls]
    /\ (Calls = rN + 1 /\ AllFailed) => rpc = "raised"

\* C6 witness: three invocations fail with different errors and the last
\* one's error is raised.
C6_Witness ==
    /\ npc = "idle"
    /\ rpc = "raised"
    /\ rN = 2
    /\ FnEvents[1].val = <<"NetworkError">>
    /\ FnEvents[3].val = <<"EmptyResponse">>
    /\ rResult.val = <<"EmptyResponse">>

----------------------------------------------------------------------------
(* Claims about generateCombinedSection *)

FailedChunks == {i \in 1..Len(nCallLog) : nCallLog[i].kind = "error"}

\* C1 as stated: when generateCombinedSection returns, every chunk was
\* processed, exactly the chunks whose call raised hold the placeholder, every
\* other chunk holds the text its call returned, and the text returned is not
\* empty, also after the cleanup pass.
C1_PlaceholderLocalAndNonEmpty ==
    npc = "done" =>
        /\ Len(nResults) = Len(nChunks)
        /\ \A i \in 1..Len(nResults) :
              nResults[i] = IF i \in FailedChunks THEN PLACEHOLDER ELSE nCallLog[i].val
        /\ nReturn # <<>>
        /\ postProcessText(nReturn) # <<>>

----------------------------------------------------------------------------
(* Claims about synthesizeSpeechWithElevenLabs *)

\* C2: once the synthesis of chunk i has exhausted its retries on the chunked
\* path, the call has raised, the only operations it made are the syntheses
\* of the chunks 0..i in order (none after i, no concatenation, no deletion),
\* and there is no file at the output path.
C2_ChunkFailureIsFatal ==
    sError.kind = "chunk" =>
        /\ spc = "raised"
        /\ Len(sLog) = sError.at + 1
        /\ \A k \in 1..Len(sLog) :
              sLog[k] = [ev |-> "synthesize", path |-> TempChunkName(k - 1, OutputName),
                         ok |-> TRUE]
        /\ OutputName \notin files

\* C2 witness: a script of three chunks whose second chunk failed three
\* times, after the first chunk's file was written.
C2_Witness ==
    /\ spc = "raised"
    /\ sError = [kind |-> "chunk", at |-> 1]
    /\ Len(sChunks) = 3
    /\ tempFilePaths = <<TempChunkName(0, OutputName)>>
    /\ files = {TempChunkName(0, OutputName)}
    /\ Len(sLog) = 2

\* C3 as stated: when the call has ended, by returning or by raising, a
\* deletion was attempted for every temporary file it created.
C3_EveryTempFileDeletionAttempted ==
    spc \in {"returned", "raised"} =>
        \A p \in Range(tempFilePaths) :
            \E k \in 1..Len(sLog) : sLog[k].ev = "unlink" /\ sLog[k].path = p

----------------------------------------------------------------------------
(* Claims about createPodcastScript *)

Contains(s, part) ==
    \E i \in 0..(Len(s) - Len(part)) : SubSeq(s, i + 1, i + Len(part)) = part

\* C4: whatever the grouped input and whichever narration and summary calls
\* failed, the script createPodcastScript returns is not empty and holds the
\* fixed opening and the fixed ending word for word.
C4_ScriptHoldsOpeningAndEnding ==
    ppc = "done" =>
        /\ pScript # <<>>
        /\ Contains(pScript, OPENING)
        /\ Contains(pScript, CONCLUSION)

\* C4 witness: both categories have sections, a narration call failed for
\* good (its placeholder is in the script) and the summary call failed (its
\* fallback sentence is in the script).
C4_Witness ==
    /\ ppc = "done"
    /\ pGrouped.tech # <<>>
    /\ pGrouped.other # <<>>
    /\ Contains(techScript, PLACEHOLDER)
    /\ Contains(otherScript, PLACEHOLDER)
    /\ pSummary = SummaryFallback(CountAll(pGrouped.tech), CountAll(pGrouped.other))
    /\ Contains(pScript, pSummary.text)

----------------------------------------------------------------------------
(* Claims about groupContentsByCategory *)

BucketsOf(item) == IF item.category = TECH THEN gResult.tech ELSE gResult.other

\* the buckets, of either category, that hold the item
Holding(item) ==
    {<<side, k>> \in {"tech", "other"} \X (1..MaxGroupItems) :
        /\ k <= Len(gResult[side])
        /\ \E j \in 1..Len(gResult[side][k].contents) :
              gResult[side][k].contents[j] = item}

\* C10: every input item is in exactly one bucket, once, the bucket of its
\* category and of its subCategory (of the fallback subcategory when it has
\* none), and the buckets hold nothing else.
C10_EachItemInExactlyOneBucket ==
    gpc = "done" =>
        /\ \A i \in 1..Len(gContents) :
              LET item == gContents[i]
                  key == IF item.subCategory # Absent THEN item.subCategory
                         ELSE IF item.category = TECH THEN OTHER_TECH ELSE OTHER_GENERAL
              IN /\ Cardinality(Holding(item)) = 1
                 /\ \E k \in 1..Len(BucketsOf(item)) :
                       /\ BucketsOf(item)[k].key = key
                       /\ Cardinality({j \in 1..Len(BucketsOf(item)[k].contents) :
                                          BucketsOf(item)[k].contents[j] = item}) = 1
        /\ CountAll(gResult.tech) + CountAll(gResult.other) = Len(gContents)

\* C10 witness: a tech item without subCategory shares the fallback bucket
\* with an item classified OTHER_TECH; an other item without subCategory has
\* the fallback bucket of its category.
C10_Witness ==
    /\ gpc = "done"
    /\ Len(gContents) = 3
    /\ gContents[1] = [id |-> 1, category |-> TECH, subCategory |-> Absent]
    /\ gContents[2] = [id |-> 2, category |-> OTHER_CONTENT, subCategory |-> Absent]
    /\ gContents[3] = [id |-> 3, category |-> TECH, subCategory |-> OTHER_TECH]
    /\ gResult.tech = <<[key |-> OTHER_TECH, contents |-> <<gContents[1], gContents[3]>>]>>
    /\ gResult.other = <<[key |-> OTHER_GENERAL, contents |-> <<gContents[2]>>]>>

----------------------------------------------------------------------------
(* Claims about the sections createPodcastScript narrates *)

SideBuckets(category) == IF category = TECH THEN pGrouped.tech ELSE pGrouped.other

\* the generateCombinedSection calls made for a key of a category
NarrationsOf(category, key) ==
    {k \in 1..Len(pNarrated) :
        pNarrated[k].category = category /\ pNarrated[k].key = key}

\* the buckets for which Merged holds are not narrated on their own and all
\* their items are in the one combined section of the category, which is
\* narrated once; every other bucket is narrated once on its own, whole
NarratedBySize(Merged(_, _)) ==
    \A category \in {TECH, OTHER_CONTENT} :
        LET buckets == SideBuckets(category)
            merged == {k \in 1..Len(buckets) : Merged(buckets[k], Len(buckets))}
        IN /\ \A k \in 1..Len(buckets) :
                 IF k \in merged
                 THEN /\ NarrationsOf(category, buckets[k].key) = {}
                      /\ \A j \in 1..Len(buckets[k].contents) :
                            \E c \in NarrationsOf(category, "(small)") :
                                \E i \in 1..Len(pNarrated[c].contents) :
                                    pNarrated[c].contents[i] = buckets[k].contents[j]
                 ELSE /\ Cardinality(NarrationsOf(category, buckets[k].key)) = 1
                      /\ \A c \in NarrationsOf(category, buckets[k].key) :
                            pNarrated[c].contents = buckets[k].contents
           /\ Cardinality(NarrationsOf(category, "(small)")) = (IF merged = {} THEN 0 ELSE 1)

\* C11 as stated: every bucket of 2 items or fewer is left out of individual
\* narration and merged into the one combined section of its category,
\* narrated once; every bucket of 3 items or more is narrated on its own.
C11_SmallBucketsMerged ==
    ppc = "done" => NarratedBySize(LAMBDA b, n : Len(b.contents) <= 2)

\* C11 amended: the buckets of 2 items or fewer of a category that has more
\* than one bucket are merged into the one combined section of the category,
\* narrated once; every other bucket, the only bucket of its category
\* included, is narrated on its own.
C11_SmallBucketsMergedUnlessAlone ==
    ppc = "done" => NarratedBySize(LAMBDA b, n : Len(b.contents) <= 2 /\ n > 1)

\* C11 witness: two tech buckets of 1 item were narrated together, once; two
\* other buckets, of 3 and of 2 items, gave one section each.
C11_Witness ==
    /\ ppc = "done"
    /\ Len(pGrouped.tech) = 2
    /\ \A k \in 1..2 : Len(pGrouped.tech[k].contents) = 1
    /\ Len(pGrouped.other) = 2
    /\ Len(pGrouped.other[1].contents) = 3
    /\ Len(pGrouped.other[2].contents) = 2
    /\ Len(pNarrated) = 3
    /\ pNarrated[1].key = "(small)" /\ Len(pNarrated[1].contents) = 2
    /\ pNarrated[2].key = "NEWS"
    /\ pNarrated[3].key = "(small)" /\ pNarrated[3].category = OTHER_CONTENT

----------------------------------------------------------------------------
(* Claims about the order of narration *)

\* the items handed to generateCombinedSection for a category, in order
RECURSIVE NarratedItemsFrom(_, _)
NarratedItemsFrom(category, k) ==
    IF k > Len(pNarrated) THEN <<>>
    ELSE (IF pNarrated[k].category = category THEN pNarrated[k].contents ELSE <<>>)
             \o NarratedItemsFrom(category, k + 1)

\* the bucket of an input item, told from the input alone
BucketKey(item) ==
    IF item.subCategory # Absent THEN item.subCategory
    ELSE IF item.category = TECH THEN OTHER_TECH ELSE OTHER_GENERAL

SameBucket(x, y) == x.category = y.category /\ BucketKey(x) = BucketKey(y)

BucketMembers(x) == {i \in 1..Len(gContents) : SameBucket(gContents[i], x)}

\* the position in the input of the first item of x's bucket
FirstInserted(x) == CHOOSE i \in BucketMembers(x) : \A j \in BucketMembers(x) : i <= j

\* x is narrated before y: its bucket is larger; or as large and inserted
\* first; or the same and x was processed first
NarratedBefore(x, y) ==
    \/ Cardinality(BucketMembers(x)) > Cardinality(BucketMembers(y))
    \/ /\ Cardinality(BucketMembers(x)) = Cardinality(BucketMembers(y))
       /\ FirstInserted(x) < FirstInserted(y)
    \/ SameBucket(x, y) /\ x.id < y.id

\* C12: within each category the items are narrated bucket by bucket, the
\* buckets by descending item count, buckets of equal count in the order of
\* first insertion, the items of a bucket in processing order.  The order is
\* fixed by the input alone, so that grouping and sorting the same input
\* again gives the same order.
C12_NarrationOrder ==
    ppc = "done" =>
        \A category \in {TECH, OTHER_CONTENT} :
            LET narrated == NarratedItemsFrom(category, 1)
            IN /\ Len(narrated) =
                     Cardinality({i \in 1..Len(gContents) : gContents[i].category = category})
               /\ \A i, j \in 1..Len(narrated) :
                     i < j => NarratedBefore(narrated[i], narrated[j])

\* C12 witness: of three tech items the first is alone in its bucket and the
\* other two share the bucket inserted second: the two are narrated first.
\* Two other items in two buckets of one item keep their insertion order.
C12_Witness ==
    /\ ppc = "done"
    /\ Len(gContents) = 3
    /\ \A i \in 1..3 : gContents[i].category = TECH
    /\ gContents[1].subCategory = "AI_ML"
    /\ gContents[2].subCategory = Absent
    /\ gContents[3].subCategory = Absent
    /\ gResult.tech = <<[key |-> "AI_ML", contents |-> <<gContents[1]>>],
                         [key |-> OTHER_TECH, contents |-> <<gContents[2], gContents[3]>>]>>
    /\ NarratedItemsFrom(TECH, 1) = <<gContents[2], gContents[3], gContents[1]>>

----------------------------------------------------------------------------
(* Claims about the fallback subcategory *)

\* the bucket of that key on that side holds the item
InBucket(buckets, key, item) ==
    \E k \in 1..Len(buckets) :
        /\ buckets[k].key = key
        /\ \E j \in 1..Len(buckets[k].contents) : buckets[k].contents[j] = item

\* C13: once the grouping is done, every item without subCategory is in the
\* fallback bucket of its own category: OTHER_TECH for a TECH item,
\* OTHER_GENERAL for an OTHER item; no bucket has the absent value as key.
C13_AbsentSubCategoryFallsBack ==
    gpc = "done" =>
        /\ \A i \in 1..Len(gContents) :
              gContents[i].subCategory = Absent =>
                  IF gContents[i].category = TECH
                  THEN InBucket(gResult.tech, OTHER_TECH, gContents[i])
                  ELSE InBucket(gResult.other, OTHER_GENERAL, gContents[i])
        /\ \A k \in 1..Len(gResult.tech) : gResult.tech[k].key # Absent
        /\ \A k \in 1..Len(gResult.other) : gResult.other[k].key # Absent

\* C13 witness: an OTHER item and a TECH item, both without subCategory,
\* each alone in the fallback bucket of its category.
C13_Witness ==
    /\ gpc = "done"
    /\ gContents = <<[id |-> 1, category |-> OTHER_CONTENT, subCategory |-> Absent],
                      [id |-> 2, category |-> TECH, subCategory |-> Absent]>>
    /\ gResult = [tech |-> <<[key |-> OTHER_TECH, contents |-> <<gContents[2]>>]>>,
                   other |-> <<[key |-> OTHER_GENERAL, contents |-> <<gContents[1]>>]>>]

----------------------------------------------------------------------------
(* Claims about the layout of the script *)

\* the number of items of a category in the grouped input
ItemsOf(category) == CountAll(SideBuckets(category))

\* the part of the script of one category: nothing without items, else the
\* sentence with the count, the sections and a blank line
CategoryPart(category, sections) ==
    IF ItemsOf(category) = 0 THEN <<>>
    ELSE <<IF category = TECH THEN "konshuu no gijutsukei no wadai wa "
           ELSE "tsuzuite, sonota no wadai wo ">>
         \o NumText(ItemsOf(category))
         \o <<IF category = TECH THEN " ken arimashita." ELSE " ken shoukai shimasu.",
               NL, NL>>
         \o sections \o <<NL, NL>>

\* C14: the script returned is the fixed opening, then the sections of the
\* TECH category, then the sections of the OTHER category, then the summary
\* paragraph, then the fixed ending and nothing after it; no TECH section was
\* narrated after an OTHER section, and the sections of each category are in
\* the part of that category.
C14_ScriptLayout ==
    ppc = "done" =>
        /\ pScript = OPENING \o CategoryPart(TECH, techScript)
                         \o CategoryPart(OTHER_CONTENT, otherScript)
                         \o pSummary.text \o CONCLUSION
        /\ \A i, j \in 1..Len(pNarrated) :
              i < j => ~(pNarrated[i].category = OTHER_CONTENT /\ pNarrated[j].category = TECH)
        /\ (techScript = <<>>) = (NarratedItemsFrom(TECH, 1) = <<>>)
        /\ (otherScript = <<>>) = (NarratedItemsFrom(OTHER_CONTENT, 1) = <<>>)
        /\ ~Contains(techScript, <<"## ", SubCategoryNames["NEWS"], NL>>)
        /\ ~Contains(otherScript, <<" ni kansuru wadai">>)

\* C14 witness: a script with two TECH sections, one OTHER section and a
\* summary taken from the answer of the summary call.
C14_Witness ==
    /\ ppc = "done"
    /\ Len(pNarrated) = 3
    /\ pNarrated[1].category = TECH
    /\ pNarrated[2].category = TECH
    /\ pNarrated[3].category = OTHER_CONTENT /\ pNarrated[3].key = "NEWS"
    /\ pSummary = SummaryFromResponse(<<"x", KUTEN, NL>>)
    /\ Contains(techScript, <<" ni kansuru wadai">>)
    /\ Contains(otherScript, <<"## ", SubCategoryNames["NEWS"], NL>>)

\* C15 as stated: with no item in either category the script returned holds
\* the opening and the ending and, besides them, a sentence saying that
\* there was nothing to report.
C15_EmptyInputHasNeutralSentence ==
    (ppc = "done" /\ ItemsOf(TECH) = 0 /\ ItemsOf(OTHER_CONTENT) = 0) =>
        /\ Contains(pScript, OPENING)
        /\ Contains(pScript, CONCLUSION)
        /\ pScript # OPENING \o CONCLUSION

----------------------------------------------------------------------------
(* Claims about the empty script *)

\* C16: called on a script that is empty after trimming,
\* synthesizeSpeechWithElevenLabs has raised the empty-text error without
\* any synthesis request, any retry, any merge and any file written.
C16_EmptyScriptFailsFast ==
    (spc # "idle" /\ \A i \in 1..Len(sText) : sText[i] \in Whitespace) =>
        /\ spc = "raised"
        /\ sError.kind = "empty"
        /\ sLog = <<>>
        /\ rTrace = <<>>
        /\ rpc = "idle"
        /\ tempFilePaths = <<>>
        /\ files = {}

\* C16 witness: a script of a space and a newline, longer than the budget,
\* was refused.
C16_Witness ==
    /\ spc = "raised"
    /\ sText = <<SP, NL>>
    /\ cMax = 1
    /\ sError.kind = "empty"
    /\ files = {}

----------------------------------------------------------------------------
(* Claims about mergeAudioFiles *)

\* what a call has started, in order
EventsOf(c) == SelectSeq(mLog, LAMBDA e : e.call = c)

\* C17: a call without input has raised the no-input error, has started
\* nothing and has written no output file; a call with exactly one input has
\* returned after copying that input to its output path, without generating
\* a silence file and without starting a merge.
C17_ZeroAndOneInput ==
    \A c \in MergeCalls :
        mpc[c] # "idle" =>
            /\ Len(mArgs[c].inputs) = 0 =>
                  /\ mpc[c] = "raised"
                  /\ mError[c] = "noInput"
                  /\ EventsOf(c) = <<>>
                  /\ ~Exists(OutputPath(c))
            /\ Len(mArgs[c].inputs) = 1 =>
                  /\ mpc[c] = "returned"
                  /\ mError[c] = "none"
                  /\ EventsOf(c) = <<[ev |-> "copy", call |-> c, path |-> OutputPath(c),
                                       list |-> mArgs[c].inputs]>>
                  /\ Exists(OutputPath(c))
                  /\ Content(OutputPath(c)) = Content(mArgs[c].inputs[1])

\* C17 witness: the first call had no input and raised; the second had one
\* input and copied it; no silence file exists.
C17_Witness ==
    /\ mpc = [c \in MergeCalls |-> IF c = 1 THEN "raised" ELSE "returned"]
    /\ mArgs[1].inputs = <<>>
    /\ mArgs[2].inputs = <<InputPath(1)>>
    /\ mError[1] = "noInput"
    /\ Len(mLog) = 1 /\ mLog[1].ev = "copy" /\ mLog[1].call = 2
    /\ Content(OutputPath(2)) = <<"audio">> \o NumText(1)
    /\ \A d \in SilenceDurations : ~Exists(SilencePath(d))

\* the generateSilence calls made for a duration
Generations(d) ==
    {k \in 1..Len(mLog) : mLog[k].ev = "silence" /\ mLog[k].path = SilencePath(d)}

\* C18 as stated: whatever the order and the overlap of the calls, the
\* silence file of a duration is generated at most once.
C18_SilenceGeneratedOnce ==
    \A d \in SilenceDurations : Cardinality(Generations(d)) <= 1

----------------------------------------------------------------------------
(* Claims about the temporary chunk files of overlapping runs *)

\* C19 as stated: the temporary chunk paths of one run differ from each
\* other, and two runs whose synthesis overlaps have written no temporary
\* chunk path in common.
C19_TempNamesCollisionFree ==
    /\ \A r \in Runs : \A i, j \in 1..Len(kWritten[r]) :
          i # j => kWritten[r][i] # kWritten[r][j]
    /\ \A r1, r2 \in Runs :
          (r1 # r2 /\ kpc[r1] = "synthesis" /\ kpc[r2] = "synthesis") =>
              Range(kWritten[r1]) \cap Range(kWritten[r2]) = {}

----------------------------------------------------------------------------
(* Claims about scrapeMultipleUrls *)

\* the batch of a position of uniqueUrls, counted from 0
BatchNumber(k) == (k - 1) \div 5

\* C20: at most 5 scrapeUrl calls are in flight, and no call of a batch has
\* started while a call of an earlier batch was not completed.
C20_BatchesOfFive ==
    /\ Cardinality(uInFlight) <= 5
    /\ uInFlight \cap uDone = {}
    /\ \A k \in uInFlight \cup uDone :
          \A j \in 1..Len(uUrls) : BatchNumber(j) < BatchNumber(k) => j \in uDone

\* C20 witness: of 7 urls the first 5 are done and the last 2 are in flight.
C20_Witness ==
    /\ upc = "batch"
    /\ Len(uUrls) = 7
    /\ uDone = 1..5
    /\ uInFlight = {6, 7}

----------------------------------------------------------------------------
(* Claims about main *)

\* C21: a classification, summarization, narration, scraping or spreadsheet
\* call that has failed after its retries never makes main raise: when main
\* raises, the error is one of the synthesis or of the concatenation.
C21_OnlySynthesisAndConcatenationAbort ==
    wpc = "raised" => wCause \in {"synthesis", "concatenation"}

NarratedIds == {wNarrated[k].id : k \in 1..Len(wNarrated)}

\* C22: whatever saveTweet, savePodcastEpisode and saveLogEntry calls fail,
\* a run that fetched tweets and whose fetch, synthesis and concatenation
\* succeeded has narrated every fetched tweet and has produced the audio file.
C22_PersistenceFailuresLeaveTheArtifact ==
    (/\ wpc \in {"returned", "raised"}
     /\ Len(wTweets) > 0
     /\ wCause \notin {"fetch", "synthesis", "concatenation"}) =>
        /\ NarratedIds = {wTweets[k].tweetLink : k \in 1..Len(wTweets)}
        /\ wArtifact

\* C23: after a run that processed every one of the n > 0 fetched tweets and
\* returned, one episode is saved and its list of tweet ids has n entries, the
\* ids of the processed items in processing order.
C23_EpisodeListsEveryItem ==
    (wpc = "returned" /\ Len(wTweets) > 0 /\ Len(wProcessed) = Len(wTweets)) =>
        /\ Len(wEpisodes) = 1
        /\ Len(wEpisodes[1].tweets) = Len(wTweets)
        /\ \A k \in 1..Len(wEpisodes[1].tweets) :
              /\ wEpisodes[1].tweets[k] # NoId
              /\ wEpisodes[1].tweets[k] = wProcessed[k].original.id

\* C24: as long as every classification call of the run has failed, main has
\* not raised because of a classification, every processed item has the
\* default category and its fallback subcategory, the groups handed to
\* createPodcastScript are the one fallback bucket of that category, and a
\* run that returns has produced the audio file and saved the episode.
C24_AllClassificationsFail ==
    ~wClassOk =>
        /\ wpc = "raised" => wCause \in {"fetch", "synthesis", "concatenation", "saveEpisode"}
        /\ \A k \in 1..Len(wProcessed) :
              /\ wProcessed[k].category = OTHER_CONTENT
              /\ wProcessed[k].subCategory = OTHER_GENERAL
        /\ LET grouped == groupContentsByCategory(wProcessed)
           IN /\ grouped.tech = <<>>
              /\ \A k \in 1..Len(wProcessed) :
                    InBucket(grouped.other, OTHER_GENERAL, wProcessed[k])
              /\ Len(grouped.other) <= 1
        /\ (wpc = "returned" /\ Len(wTweets) > 0) => (wArtifact /\ Len(wEpisodes) = 1)

\* C24 witness: a run of two tweets whose classification calls all failed has
\* returned, with both items narrated and the episode saved.
C24_Witness ==
    /\ ~wClassOk
    /\ "classification" \in wFailed
    /\ wpc = "returned"
    /\ Len(wNarrated) = 2
    /\ Len(wEpisodes) = 1

----------------------------------------------------------------------------
(* Claims about summarizeContent *)

\* C25, as stated: a summarizeContent call whose retries were exhausted
\* returns the first 200 characters of the content followed by the marker.
C25_FallbackIsMarkedPrefix ==
    (zpc = "returned" /\ rpc = "raised") =>
        zReturn = SubSeq(zContent, 1, Min(FALLBACK_PREFIX, Len(zContent))) \o FAILED_MARKER

\* C25, amended: summarizeContent returns whenever retryAsync has raised, and
\* it then returns the first 200 characters of the content followed by the
\* marker when the content is longer than 200 characters, and the content
\* itself, without marker, otherwise.
C25_FallbackIsPrefixOrContent ==
    /\ rpc = "raised" => (zpc = "returned" \/ ENABLED ContentSummaryFailed)
    /\ (zpc = "returned" /\ rpc = "raised") =>
          /\ Calls = SUMMARY_RETRIES + 1
          /\ IF Len(zContent) > FALLBACK_PREFIX
             THEN zReturn = SubSeq(zContent, 1, FALLBACK_PREFIX) \o FAILED_MARKER
             ELSE zReturn = zContent

\* C25 witness: a content of 201 characters whose three calls failed came
\* back as its first 200 characters and the marker.
C25_Witness ==
    /\ zpc = "returned"
    /\ rpc = "raised"
    /\ Len(zContent) = FALLBACK_PREFIX + 1
    /\ Len(zReturn) = FALLBACK_PREFIX + Len(FAILED_MARKER)

----------------------------------------------------------------------------
(* Claims about the chunked path of synthesizeSpeechWithElevenLabs *)

SynthesizeEvents == SelectSeq(sLog, LAMBDA e : e.ev = "synthesize")
MergeEvents == SelectSeq(sLog, LAMBDA e : e.ev = "merge")

\* C26: on the chunked path the chunks are synthesized one at a time in chunk
\* order, chunk k to the temporary file of index k; the synthesis of a chunk
\* starts only when all chunks before it have succeeded; the merge is invoked
\* at most once, after every chunk has succeeded, on the temporary files in
\* chunk order.
C26_ChunksInOrderThenMerge ==
    Len(sChunks) > 0 =>
        /\ \A k \in 1..Len(SynthesizeEvents) :
              SynthesizeEvents[k].path = TempChunkName(k - 1, OutputName)
        /\ Len(tempFilePaths) = si
        /\ \A k \in 1..Len(tempFilePaths) : tempFilePaths[k] = TempChunkName(k - 1, OutputName)
        /\ \A j, k \in 1..Len(tempFilePaths) : j # k => tempFilePaths[j] # tempFilePaths[k]
        /\ Len(SynthesizeEvents) \in {si, si + 1}
        /\ Len(SynthesizeEvents) = si + 1 =>
              (spc = "await" \/ (spc = "raised" /\ sError.kind = "chunk"))
        /\ Len(MergeEvents) <= 1
        /\ Len(MergeEvents) = 1 =>
              /\ Len(tempFilePaths) = Len(sChunks)
              /\ Len(SynthesizeEvents) = Len(sChunks)
              /\ \A k \in 1..Len(sChunks) : sLog[k].ev = "synthesize"
              /\ sLog[Len(sChunks) + 1].ev = "merge"

\* C26 witness: a script of three chunks, all synthesized, merged.
C26_Witness ==
    /\ spc = "returned"
    /\ Len(sChunks) = 3
    /\ Len(MergeEvents) = 1
    /\ Len(tempFilePaths) = 3

\* C27: a bucket of k items is cut into ceil(k / 5) chunks of consecutive
\* items, all of 5 items but the last, which has 1 to 5, and the chunks put
\* end to end are the bucket; the call of chunk i + 1 starts only when the
\* calls of the chunks 1..i have finished, so one call at most is in flight;
\* the text returned joins one text per chunk, in chunk order.
C27_ChunksOfFiveOneAtATime ==
    npc # "idle" =>
        /\ Len(nChunks) = (Len(nContents) + 4) \div 5
        /\ Flatten(nChunks) = nContents
        /\ \A c \in 1..Len(nChunks) :
              /\ Len(nChunks[c]) \in 1..5
              /\ c < Len(nChunks) => Len(nChunks[c]) = 5
        /\ Len(nCallLog) = ni
        /\ Len(nResults) = ni
        /\ ni <= Len(nChunks)
        /\ rpc # "idle" => (npc = "await" /\ ni < Len(nChunks))
        /\ \A i \in 1..ni :
              nResults[i] = IF nCallLog[i].kind = "error" THEN PLACEHOLDER ELSE nCallLog[i].val
        /\ npc = "done" =>
              /\ ni = Len(nChunks)
              /\ nReturn = Join(nResults, <<NL, NL>>)

\* C27 witness: a bucket of 11 items, in chunks of 5, 5 and 1, whose second
\* call was retried while the third had not started; and the end of it.
C27_Witness ==
    /\ Len(nContents) = 11
    /\ Len(nChunks) = 3
    /\ Len(nChunks[3]) = 1
    /\ npc = "done"
    /\ nCallLog[2].at > 1
    /\ Len(nResults) = 3

----------------------------------------------------------------------------
(* Claims about the items createPodcastScript narrates *)

GroupedItems == FlattenBuckets(pGrouped.tech) \o FlattenBuckets(pGrouped.other)

\* the generateCombinedSection calls an item was handed to
HandedOver(item) ==
    {k \in 1..Len(pNarrated) :
        \E j \in 1..Len(pNarrated[k].contents) : pNarrated[k].contents[j] = item}

\* C28: when createPodcastScript returns, every item of the grouped input was
\* handed to generateCombinedSection exactly once, in the section of its own
\* bucket or in the combined section of its category, and nothing else was
\* handed over.
C28_EveryItemNarratedOnce ==
    ppc = "done" =>
        LET items == GroupedItems
        IN /\ \A i \in 1..Len(items) :
                 LET sections == HandedOver(items[i])
                 IN /\ Cardinality(sections) = 1
                    /\ \A k \in sections :
                          /\ Cardinality({j \in 1..Len(pNarrated[k].contents) :
                                             pNarrated[k].contents[j] = items[i]}) = 1
                          /\ pNarrated[k].category = items[i].category
                          /\ pNarrated[k].key \in {items[i].subCategory, "(small)"}
           /\ SumOf([k \in 1..Len(pNarrated) |-> Len(pNarrated[k].contents)]) = Len(items)

\* C28 witness: a tech bucket of 6 items narrated on its own and one of 1
\* item narrated in the combined section; the only other bucket, of 2 items,
\* narrated on its own.
C28_Witness ==
    /\ ppc = "done"
    /\ Len(pGrouped.tech) = 2
    /\ Len(pGrouped.tech[1].contents) = 6
    /\ Len(pGrouped.tech[2].contents) = 1
    /\ Len(pGrouped.other) = 1
    /\ Len(pGrouped.other[1].contents) = 2
    /\ Len(pNarrated) = 3
    /\ pNarrated[2].key = "(small)"
    /\ pNarrated[3].key = pGrouped.other[1].key

----------------------------------------------------------------------------
(* Claims about generateStatisticalSummary *)

\* C29: the summary request is retried before the sentence with the counts
\* is substituted: a script whose summary is that sentence was assembled after
\* more than one request, and the failure did not reach createPodcastScript.
C29_SummaryRetriedBeforeFallback ==
    (/\ ppc = "done"
     /\ pSummary = SummaryFallback(CountAll(pGrouped.tech), CountAll(pGrouped.other))) =>
        /\ pSummaryCalls >= 2
        /\ ~pSummary.raised

----------------------------------------------------------------------------
(* Claims about the onError callback of retryAsync *)

\* C30: onError is called once after each failed invocation of fn that is
\* retried, before the next invocation, and at no other time: not after a
\* success and not after the failure retryAsync raises; its second argument
\* takes the values rN, rN - 1, ..., 1 in that order, so it is called rN times
\* when all rN + 1 invocations fail.
C30_OnErrorOncePerRetry ==
    /\ \A k \in 1..Len(rTrace) :
          /\ rTrace[k].ev = "onError" =>
                /\ k > 1
                /\ rTrace[k - 1].ev = "fn" /\ ~rTrace[k - 1].ok
                /\ k < Len(rTrace) => rTrace[k + 1].ev = "fn"
          /\ (rTrace[k].ev = "fn" /\ k < Len(rTrace)) =>
                (~rTrace[k].ok /\ rTrace[k + 1].ev = "onError")
    /\ \A j \in 1..Len(OnErrorEvents) : OnErrorEvents[j].at = rN - j + 1
    /\ \A j \in 1..Len(OnErrorEvents) : OnErrorEvents[j].at >= 1
    /\ rpc \in {"returned", "raised"} =>
          /\ rTrace[Len(rTrace)].ev = "fn"
          /\ Len(OnErrorEvents) = Calls - 1
    /\ rpc = "raised" => Len(OnErrorEvents) = rN
    /\ rpc = "wait" => Len(OnErrorEvents) = Calls
    /\ rpc = "call" => Len(OnErrorEvents) = Calls

\* C30 witness: four failed invocations with 3 retries: onError was called
\* three times, with 3, 2 and 1, and not after the fourth failure.
C30_Witness ==
    /\ npc = "idle"
    /\ zpc = "idle"
    /\ rpc = "raised"
    /\ rN = 3
    /\ Calls = 4
    /\ Len(OnErrorEvents) = 3
    /\ OnErrorEvents[1].at = 3
    /\ OnErrorEvents[3].at = 1

----------------------------------------------------------------------------
(* Claims about the list mergeAudioFiles hands to ffmpeg *)

\* silenceDuration > 0
PositiveDuration(d) == d # "0"

\* C31 as stated: the list a call with two or more inputs hands to the
\* concatenation holds the inputs in listed order with exactly one silence
\* entry between each consecutive pair and none at either end (2n-1
\* entries) when the silence duration is > 0, and the inputs alone when the
\* silence duration is not > 0.
C31_SilenceBetweenInputsOnly ==
    \A k \in 1..Len(mLog) :
        mLog[k].ev = "merge" =>
            LET inputs == mArgs[mLog[k].call].inputs
                duration == mArgs[mLog[k].call].duration
                n == Len(inputs)
                list == mLog[k].list
            IN /\ n >= 2
               /\ IF PositiveDuration(duration)
                  THEN /\ Len(list) = 2 * n - 1
                       /\ \A j \in 1..n : list[2 * j - 1] = inputs[j]
                       /\ \A j \in 1..(n - 1) : list[2 * j] = SilencePath(duration)
                  ELSE list = inputs

----------------------------------------------------------------------------
(* Claims about the direct path of synthesizeSpeechWithElevenLabs *)

\* the script is blank: empty after trimming
IsBlankScript == \A i \in 1..Len(sText) : sText[i] \in Whitespace

\* the fn invocations of the current retryAsync call, the one in flight included
Invocations == Calls + (IF rpc = "call" THEN 1 ELSE 0)

\* C32: called on a script that is not blank and not longer than
\* MAX_TEXT_LENGTH, synthesizeSpeechWithElevenLabs makes one processChunk
\* call, of at most 3 invocations, that writes to the output path; it keeps
\* no temporary path, writes no other file, starts no concatenation and no
\* deletion, and the output file exists when it has returned.
C32_DirectPathOneSynthesis ==
    (spc # "idle" /\ ~IsBlankScript /\ Len(sText) <= cMax) =>
        /\ spc \in {"direct", "returned", "raised"}
        /\ sLog = <<[ev |-> "synthesize", path |-> OutputName, ok |-> TRUE]>>
        /\ Invocations <= 3
        /\ sChunks = <<>>
        /\ tempFilePaths = <<>>
        /\ files \subseteq {OutputName}
        /\ spc = "returned" => OutputName \in files

\* C32 witness: a script exactly as long as the budget whose synthesis
\* request failed twice and answered the third time, writing the output file.
C32_Witness ==
    /\ spc = "direct"
    /\ rpc = "returned"
    /\ ~IsBlankScript
    /\ Len(sText) = cMax
    /\ Calls = 3
    /\ Len(OnErrorEvents) = 2
    /\ files = {OutputName}
    /\ sLog = <<[ev |-> "synthesize", path |-> OutputName, ok |-> TRUE]>>

----------------------------------------------------------------------------
(* Claims about the chunked path of synthesizeSpeechWithElevenLabs *)

\* the call went into the branch textLength > MAX_TEXT_LENGTH
TookChunkedPath ==
    \/ spc \in {"loop", "await"}
    \/ spc = "returned" /\ Len(sText) > cMax
    \/ spc = "raised" /\ sError.kind \in {"chunk", "merge"}

\* C35: whenever synthesizeSpeechWithElevenLabs has taken the chunked path,
\* the script is not blank and longer than MAX_TEXT_LENGTH,
\* splitTextIntoChunks has returned at least one chunk, and every
\* concatenation started had at least one input.
C35_ChunkedPathHasAChunk ==
    TookChunkedPath =>
        /\ ~IsBlankScript
        /\ Len(sText) > cMax
        /\ Len(sChunks) >= 1
        /\ \A k \in 1..Len(sLog) : sLog[k].ev = "merge" => Len(tempFilePaths) >= 1

\* C35 witness: a script of a newline pair around one letter, which is longer
\* than the budget and holds blank paragraphs, was split into one chunk and
\* merged from one temporary file.
C35_Witness ==
    /\ spc = "returned"
    /\ cMax = 1
    /\ Len(sText) > cMax
    /\ sText[1] = NL /\ sText[2] = NL
    /\ Len(sChunks) = 1
    /\ Len(tempFilePaths) = 1
    /\ \E k \in 1..Len(sLog) : sLog[k].ev = "merge"

----------------------------------------------------------------------------
(* Claims about cleanup failures *)

UnlinkAttempts == SelectSeq(sLog, LAMBDA e : e.ev = "unlink")

\* C33: deletions and log entries occur only in a call that has returned;
\* whichever deletions raised and whichever log entries could not be saved,
\* a deletion was attempted for every temporary file, in order, each failed
\* deletion was logged before the next attempt, and the call has returned
\* without error with the output file in place.
C33_CleanupFailuresAreNotFatal ==
    (\E k \in 1..Len(sLog) : sLog[k].ev \in {"unlink", "log"}) =>
        /\ spc = "returned"
        /\ sError = NoError
        /\ OutputName \in files
        /\ Len(UnlinkAttempts) = Len(tempFilePaths)
        /\ \A k \in 1..Len(tempFilePaths) : UnlinkAttempts[k].path = tempFilePaths[k]
        /\ \A k \in 1..Len(sLog) :
              (sLog[k].ev = "unlink" /\ ~sLog[k].ok) =>
                  /\ k < Len(sLog)
                  /\ sLog[k + 1].ev = "log"
                  /\ sLog[k + 1].path = sLog[k].path

\* C33 witness: three temporary files; the deletion of the first raised and
\* its log entry could not be saved, the other two were deleted, and the call
\* returned.
C33_Witness ==
    /\ spc = "returned"
    /\ Len(tempFilePaths) = 3
    /\ files = {OutputName, tempFilePaths[1]}
    /\ \E k \in 1..Len(sLog) :
          /\ sLog[k] = [ev |-> "unlink", path |-> tempFilePaths[1], ok |-> FALSE]
          /\ sLog[k + 1] = [ev |-> "log", path |-> tempFilePaths[1], ok |-> FALSE]
          /\ sLog[k + 2] = [ev |-> "unlink", path |-> tempFilePaths[2], ok |-> TRUE]
          /\ sLog[k + 3] = [ev |-> "unlink", path |-> tempFilePaths[3], ok |-> TRUE]

----------------------------------------------------------------------------
(* Claims about the end of a run of main *)

\* textToSpeech has rejected
SynthesisFailed == wFailed \cap {"synthesis", "concatenation"} # {}

\* C34: at most one episode record is saved in a run, and only once
\* textToSpeech has returned the audio file; once textToSpeech has raised,
\* no episode record is saved, main never returns normally, and it ends by
\* raising the error of textToSpeech.
C34_EpisodeOnlyAfterSynthesis ==
    /\ Len(wEpisodes) <= 1
    /\ Len(wEpisodes) = 1 => (wArtifact /\ "textToSpeech" \in wCalled /\ ~SynthesisFailed)
    /\ "savePodcastEpisode" \in wCalled => (wArtifact /\ ~SynthesisFailed)
    /\ SynthesisFailed =>
          /\ wEpisodes = <<>>
          /\ "savePodcastEpisode" \notin wCalled
          /\ ~wArtifact
          /\ wpc \in {"disconnect", "raised"}
          /\ wExit = "raise"
          /\ wCause \in {"synthesis", "concatenation"}

\* C34 witness: a run of two tweets whose script was produced and whose
\* synthesis raised has raised the synthesis error, without episode.
C34_Witness ==
    /\ wpc = "raised"
    /\ wCause = "synthesis"
    /\ Len(wProcessed) = 2
    /\ "createPodcastScript" \in wCalled
    /\ wEpisodes = <<>>

----------------------------------------------------------------------------
(* Claims about the loop of main over the fetched tweets *)

ProcessedLinks == [k \in 1..Len(wProcessed) |-> wProcessed[k].original.tweetLink]

\* the tweets the loop is done with
Visited ==
    IF wpc \in {"scrape", "classify", "subclassify", "saveTweet", "summarize"}
    THEN wi - 1 ELSE wi

Increasing(links) == \A j, k \in 1..Len(links) : j < k => links[j] < links[k]

\* C36: the loop is at one tweet at a time and takes the tweets in fetched
\* order; every tweet it is done with was either pushed to the processed
\* items or logged as failed by the catch block, never both; the processed
\* items are tweets of the fetched list in fetched order; and once the loop
\* is left every fetched tweet was taken, whichever tweets had failed.
C36_FailedTweetsAreSkippedAlone ==
    /\ Visited \in 0..Len(wTweets)
    /\ Increasing(ProcessedLinks)
    /\ Increasing(wSkipped)
    /\ {ProcessedLinks[k] : k \in 1..Len(wProcessed)}
          \cup {wSkipped[k] : k \in 1..Len(wSkipped)}
       = {wTweets[k].tweetLink : k \in 1..Visited}
    /\ Len(wProcessed) + Len(wSkipped) = Visited
    /\ \A k \in 1..Len(wProcessed) :
          \E j \in 1..Len(wTweets) : wProcessed[k].original = wTweets[j]
    /\ wpc \in {"script", "synthesis", "saveEpisode"} => Visited = Len(wTweets)
    /\ (wpc \in {"disconnect", "returned", "raised"} /\ wCause # "fetch") =>
          Visited = Len(wTweets)

\* C36 witness: of two fetched tweets the first failed; the second was
\* processed all the same, and the loop is left.
C36_Witness ==
    /\ wpc = "script"
    /\ Len(wTweets) = 2
    /\ wSkipped = <<1>>
    /\ ProcessedLinks = <<2>>

----------------------------------------------------------------------------
(* Claims about the termination of main *)

\* C37: provided every awaited call eventually returns or fails, a run of
\* main that has started ends, by returning or by raising.
C37_MainTerminates == (wpc # "idle") ~> (wpc \in {"returned", "raised"})

\* C37 witness: the spreadsheet request failed on each of its four attempts
\* and the run has ended by raising.
C37_Witness ==
    /\ wpc = "raised"
    /\ wCause = "fetch"
    /\ wDisconnects = 1

----------------------------------------------------------------------------
(* Claims about the persistence client *)

\* C38: prisma.$disconnect() is never called while main is inside its try
\* block; it has been called exactly once when main awaits it in the finally
\* block and when main has returned or raised, whichever way main left the
\* try block: the return after the episode was saved, the early return on an
\* empty fetch, or the throw of the catch block.
C38_DisconnectedOnceOnEveryExit ==
    /\ wpc \notin {"disconnect", "returned", "raised"} => (wDisconnects = 0 /\ wExit = "none")
    /\ wpc \in {"disconnect", "returned", "raised"} =>
          /\ wDisconnects = 1
          /\ wExit \in {"return", "raise"}
    /\ wpc = "returned" => (wExit = "return" /\ wCause = "none")
    /\ wpc = "raised" => (wExit = "raise" /\ wCause # "none")

\* C38 witness: a run whose episode could not be saved has raised, after one
\* call of prisma.$disconnect().
C38_Witness ==
    /\ wpc = "raised"
    /\ wCause = "saveEpisode"
    /\ wArtifact
    /\ wDisconnects = 1

----------------------------------------------------------------------------
(* Claims about a run that fetched nothing *)

\* fetchRecentTweets has returned an empty list
FetchedNothing ==
    /\ "fetchRecentTweets" \in wCalled
    /\ wCause # "fetch"
    /\ wTweets = <<>>

\* C39: when fetchRecentTweets has returned no tweet, main leaves by its
\* early return and ends without error: it has called nothing but
\* fetchRecentTweets, has processed and narrated nothing, and has produced
\* neither audio file nor episode.
C39_EmptyFetchEndsQuietly ==
    FetchedNothing =>
        /\ wpc \in {"disconnect", "returned"}
        /\ wExit = "return"
        /\ wCause = "none"
        /\ wCalled = {"fetchRecentTweets"}
        /\ wProcessed = <<>>
        /\ wSkipped = <<>>
        /\ wNarrated = <<>>
        /\ ~wArtifact
        /\ wEpisodes = <<>>
        /\ wFailed \subseteq {"saveLog"}

\* C39 witness: the spreadsheet request answered with no row in range, and
\* main has returned after disconnecting.
C39_Witness ==
    /\ wpc = "returned"
    /\ FetchedNothing
    /\ wDisconnects = 1
    /\ wEpisodes = <<>>

=============================================================================
